---------------------------- MODULE Spec2Model ----------------------------
(***************************************************************************)
(* Model of the CVM financials API: the statement cleaner and pivoter      *)
(* (cvm-financials-api/app/parser.py), the statement repository and load   *)
(* cycle (app/service.py, app/api.py) and the indicator engine             *)
(* (app/overview.py).                                                      *)
(*                                                                         *)
(* Every sub-system has its own specification (SpecRatio, SpecGrowth, ...) *)
(* over its own variables; the variables of the other sub-systems are kept *)
(* at their idle value.                                                    *)
(***************************************************************************)
EXTENDS Integers, Sequences, FiniteSets, TLC

(***************************************************************************)
(* Python numbers.  A value is None, a float NaN, +Infinity, -Infinity or  *)
(* a finite number, kept as the reduced fraction n/d with d > 0.           *)
(***************************************************************************)
None == [k |-> "none", n |-> 0, d |-> 1]
NaN  == [k |-> "nan",  n |-> 0, d |-> 1]
PInf == [k |-> "pinf", n |-> 0, d |-> 1]
NInf == [k |-> "ninf", n |-> 0, d |-> 1]

Abs(i) == IF i < 0 THEN -i ELSE i

RECURSIVE Gcd(_, _)
Gcd(x, y) == IF y = 0 THEN x ELSE Gcd(y, x % y)

\* the finite number num/den (den # 0), reduced
Rat(num, den) ==
    LET g == Gcd(Abs(num), Abs(den))
        s == IF den < 0 THEN -1 ELSE 1
    IN  [k |-> "fin", n |-> (s * num) \div g, d |-> (s * den) \div g]

Fin(i) == [k |-> "fin", n |-> i, d |-> 1]

IsNone(v)   == v.k = "none"
IsNaN(v)    == v.k = "nan"
IsInf(v)    == v.k \in {"pinf", "ninf"}
IsFin(v)    == v.k = "fin"
EqZero(v)   == v.k = "fin" /\ v.n = 0
\* the sign of a number that is not None and not NaN
Sign(v)     == CASE v.k = "pinf" -> 1
                 [] v.k = "ninf" -> -1
                 [] OTHER -> IF v.n > 0 THEN 1 ELSE IF v.n < 0 THEN -1 ELSE 0
\* Python truthiness of an optional number: None and 0 are false, NaN is true
Truthy(v)   == ~IsNone(v) /\ ~EqZero(v)
\* v > 0 as Python evaluates it on a number (a comparison with NaN is False)
GtZero(v)   == ~IsNone(v) /\ ~IsNaN(v) /\ Sign(v) = 1
LeZero(v)   == ~IsNone(v) /\ ~IsNaN(v) /\ Sign(v) <= 0

InfOfSign(s) == IF s > 0 THEN PInf ELSE NInf

\* float division x / y of two numbers, y not equal to 0
FDiv(x, y) ==
    CASE IsNaN(x) \/ IsNaN(y) -> NaN
      [] IsInf(x) /\ IsInf(y) -> NaN
      [] IsInf(x)             -> InfOfSign(Sign(x) * (IF Sign(y) < 0 THEN -1 ELSE 1))
      [] IsInf(y)             -> Fin(0)
      [] OTHER                -> Rat(x.n * y.d, x.d * y.n)

\* float product x * y
FMul(x, y) ==
    CASE IsNaN(x) \/ IsNaN(y) -> NaN
      [] IsInf(x) \/ IsInf(y) ->
            IF Sign(x) * Sign(y) = 0 THEN NaN ELSE InfOfSign(Sign(x) * Sign(y))
      [] OTHER                -> Rat(x.n * y.n, x.d * y.d)

FAdd(x, y) ==
    CASE IsNaN(x) \/ IsNaN(y) -> NaN
      [] IsInf(x) /\ IsInf(y) -> IF x = y THEN x ELSE NaN
      [] IsInf(x)             -> x
      [] IsInf(y)             -> y
      [] OTHER                -> Rat(x.n * y.d + y.n * x.d, x.d * y.d)

FNeg(x) ==
    CASE IsNaN(x)    -> NaN
      [] x.k = "pinf" -> NInf
      [] x.k = "ninf" -> PInf
      [] OTHER        -> Rat(-x.n, x.d)

FSub(x, y) == FAdd(x, FNeg(y))

FAbs(x) == IF IsNaN(x) THEN NaN ELSE IF IsInf(x) THEN PInf ELSE Rat(Abs(x.n), x.d)

RECURSIVE PowTen(_)
PowTen(e) == IF e = 0 THEN 1 ELSE 10 * PowTen(e - 1)

\* the integer nearest to num/den (den > 0), ties to the even one
RoundHalfEven(num, den) ==
    LET q == num \div den
        rem == num - q * den
    IN  IF 2 * rem < den THEN q
        ELSE IF 2 * rem > den THEN q + 1
        ELSE IF q % 2 = 0 THEN q ELSE q + 1

\* round(v, nd) of a float: NaN and the infinities are returned as they are
Round(v, nd) ==
    IF IsFin(v) THEN Rat(RoundHalfEven(v.n * PowTen(nd), v.d), PowTen(nd)) ELSE v

(***************************************************************************)
(* overview.py: guarded division                                           *)
(***************************************************************************)
_safe_div(a, b) ==
    IF IsNone(b) \/ IsNone(a) \/ EqZero(b) \/ IsNaN(a) \/ IsNaN(b) THEN None
    ELSE FDiv(a, b)

_safe_pct(a, b) ==
    LET r == _safe_div(a, b)
    IN  IF ~IsNone(r) THEN Round(FMul(r, Fin(100)), 2) ELSE None

_safe_round(v, nd) == IF IsNone(v) \/ IsNaN(v) THEN None ELSE Round(v, nd)

(***************************************************************************)
(* overview.py: _cagr.  A series is a sequence of points [y, v]: a fiscal  *)
(* year and an optional value.  The result of the root expression          *)
(* ((end / start) ** (1 / n) - 1) * 100 is kept by its operands e, s, n.   *)
(***************************************************************************)
NoPoint  == [y |-> 0, v |-> None]
NoGrowth == [k |-> "none", e |-> None, s |-> None, n |-> 0]
Growth(e, s, n) == [k |-> "cagr", e |-> e, s |-> s, n |-> n]

\* v is not None and v != 0
NonZero(v) == ~IsNone(v) /\ ~EqZero(v)

\* the first loop (lines 64-70): the last non-zero point at or before the
\* target year; the scan stops at a non-zero point after the target year
\* when nothing was found yet
RECURSIVE ScanTarget(_, _, _, _)
ScanTarget(values, target_year, i, start) ==
    IF i > Len(values) THEN start
    ELSE IF NonZero(values[i].v)
         THEN IF values[i].y <= target_year
              THEN ScanTarget(values, target_year, i + 1, values[i])
              ELSE IF start = NoPoint
                   THEN start
                   ELSE ScanTarget(values, target_year, i + 1, start)
         ELSE ScanTarget(values, target_year, i + 1, start)

\* the second loop (lines 74-77): the first non-zero point of the series
RECURSIVE FirstNonZero(_, _)
FirstNonZero(values, i) ==
    IF i > Len(values) THEN NoPoint
    ELSE IF NonZero(values[i].v) THEN values[i]
    ELSE FirstNonZero(values, i + 1)

\* a plausible slip: the scan keeps the first point at or before the target
\* year instead of the last one
RECURSIVE ScanTargetFirst(_, _, _)
ScanTargetFirst(values, target_year, i) ==
    IF i > Len(values) THEN NoPoint
    ELSE IF NonZero(values[i].v) /\ values[i].y <= target_year THEN values[i]
    ELSE ScanTargetFirst(values, target_year, i + 1)

_cagr_start_first(values, years) ==
    LET target_year == values[Len(values)].y - years
        start == ScanTargetFirst(values, target_year, 1)
    IN  IF start = NoPoint THEN FirstNonZero(values, 1) ELSE start

\* the start point _cagr settles on (lines 61-77), for a series whose last
\* value is not None and not 0
_cagr_start(values, years) ==
    LET target_year == values[Len(values)].y - years
        start == ScanTarget(values, target_year, 1, NoPoint)
    IN  IF start = NoPoint THEN FirstNonZero(values, 1) ELSE start

\* whether _cagr returns before it looks for a start point (lines 53-59)
_cagr_early(values) ==
    \/ Len(values) < 2
    \/ IsNone(values[Len(values)].v)
    \/ EqZero(values[Len(values)].v)

\* a plausible slip: the test on negative values is lost
_cagr_nosign(values, years) ==
    IF _cagr_early(values) THEN NoGrowth
    ELSE
        LET end   == values[Len(values)]
            start == _cagr_start(values, years)
            n     == end.y - start.y
        IN  IF start = NoPoint \/ start.y = end.y THEN NoGrowth
            ELSE IF n <= 0 THEN NoGrowth
            ELSE Growth(end.v, start.v, n)

_cagr(values, years) ==
    IF _cagr_early(values) THEN NoGrowth
    ELSE
        LET end   == values[Len(values)]
            start == _cagr_start(values, years)
            n     == end.y - start.y
        IN  IF start = NoPoint \/ start.y = end.y THEN NoGrowth
            ELSE IF n <= 0 THEN NoGrowth
            ELSE IF LeZero(start.v) \/ LeZero(end.v) THEN NoGrowth
            ELSE Growth(end.v, start.v, n)

\* pct is exactly the rate of g: (1 + pct/100) ** n = e / s
IsExactRate(g, pct) ==
    LET RECURSIVE Pow(_, _)
        Pow(x, k) == IF k = 0 THEN 1 ELSE x * Pow(x, k - 1)
    IN  /\ g.k = "cagr"
        /\ Pow(100 + pct, g.n) * g.s.n * g.e.d = g.e.n * g.s.d * Pow(100, g.n)

(***************************************************************************)
(* Text.  A Python str is a sequence of one-character strings; a missing   *)
(* cell of a text column (NaN) is NullText.                                *)
(***************************************************************************)
NullText == << "<NaN>" >>

\* the characters the model's texts are written in, with their code points
Alphabet == << " ", ",", "-", ".", "/", "0", "1", "2", "3", "4", "5", "6",
               "7", "8", "9", "A", "B", "C", "D", "E", "F", "G", "H", "I",
               "J", "K", "L", "M", "N", "O", "P", "Q", "R", "S", "T", "U",
               "V", "W", "X", "Y", "Z", "a", "b", "c", "d", "e", "f", "g",
               "h", "i", "j", "k", "l", "m", "n", "o", "p", "q", "r", "s",
               "t", "u", "v", "w", "x", "y", "z" >>
CodePoints == << 32, 44, 45, 46, 47, 48, 49, 50, 51, 52, 53, 54, 55, 56, 57,
                 65, 66, 67, 68, 69, 70, 71, 72, 73, 74, 75, 76, 77, 78, 79,
                 80, 81, 82, 83, 84, 85, 86, 87, 88, 89, 90, 97, 98, 99,
                 100, 101, 102, 103, 104, 105, 106, 107, 108, 109, 110, 111,
                 112, 113, 114, 115, 116, 117, 118, 119, 120, 121, 122 >>

Ord(c) == CodePoints[CHOOSE i \in 1..Len(Alphabet) : Alphabet[i] = c]
Chr(code) == Alphabet[CHOOSE i \in 1..Len(CodePoints) : CodePoints[i] = code]

IsDigit(c) == c \in {"0", "1", "2", "3", "4", "5", "6", "7", "8", "9"}
DigitVal(c) == Ord(c) - 48

\* str.upper() on one character
UpperChar(c) == IF Ord(c) >= 97 /\ Ord(c) <= 122 THEN Chr(Ord(c) - 32) ELSE c

\* str.lower() on one character
LowerChar(c) == IF Ord(c) >= 65 /\ Ord(c) <= 90 THEN Chr(Ord(c) + 32) ELSE c
StrLower(s) == [i \in 1..Len(s) |-> LowerChar(s[i])]

\* Series.str.upper(): NaN stays NaN
StrUpper(s) == IF s = NullText THEN NullText ELSE [i \in 1..Len(s) |-> UpperChar(s[i])]

RECURSIVE LStrip(_)
LStrip(s) == IF s # << >> /\ Head(s) = " " THEN LStrip(Tail(s)) ELSE s
RECURSIVE RStrip(_)
RStrip(s) == IF s # << >> /\ s[Len(s)] = " " THEN RStrip(SubSeq(s, 1, Len(s) - 1)) ELSE s

\* Series.str.strip(): NaN stays NaN
StrStrip(s) == IF s = NullText THEN NullText ELSE LStrip(RStrip(s))

\* str.replace(old, new) for a one-character old; new is a text
RECURSIVE StrReplace(_, _, _)
StrReplace(s, old, new) ==
    IF s = << >> THEN << >>
    ELSE (IF Head(s) = old THEN new ELSE << Head(s) >>) \o StrReplace(Tail(s), old, new)

\* s < t for two texts, as Python orders str (by code point, then by length)
RECURSIVE StrLess(_, _)
StrLess(s, t) ==
    IF t = << >> THEN FALSE
    ELSE IF s = << >> THEN TRUE
    ELSE IF Ord(Head(s)) # Ord(Head(t)) THEN Ord(Head(s)) < Ord(Head(t))
    ELSE StrLess(Tail(s), Tail(t))

\* the value of a text of decimal digits
RECURSIVE DigitsValue(_)
DigitsValue(s) ==
    IF s = << >> THEN 0 ELSE DigitsValue(SubSeq(s, 1, Len(s) - 1)) * 10 + DigitVal(s[Len(s)])

AllDigits(s) == \A i \in 1..Len(s) : IsDigit(s[i])

\* float(t) for a text t already stripped: an optional sign, digits with at
\* most one period and at least one digit; anything else does not parse (NaN)
ParseFloat(t) ==
    LET neg  == t # << >> /\ Head(t) = "-"
        body == IF neg THEN Tail(t) ELSE t
        dots == {i \in 1..Len(body) : body[i] = "."}
        ip   == IF dots = {} THEN body
                ELSE SubSeq(body, 1, (CHOOSE i \in dots : TRUE) - 1)
        fp   == IF dots = {} THEN << >>
                ELSE SubSeq(body, (CHOOSE i \in dots : TRUE) + 1, Len(body))
    IN  IF Cardinality(dots) > 1 \/ ~AllDigits(ip) \/ ~AllDigits(fp)
           \/ Len(ip) + Len(fp) = 0
        THEN NaN
        ELSE Rat((IF neg THEN -1 ELSE 1) * (DigitsValue(ip) * PowTen(Len(fp)) + DigitsValue(fp)),
                 PowTen(Len(fp)))

(***************************************************************************)
(* Dates.  A date text is the three numbers of "YYYY-MM-DD"; a datetime is *)
(* a calendar date or NaT.                                                 *)
(***************************************************************************)
NaT == [nat |-> TRUE, y |-> 0, m |-> 0, d |-> 0]
Date(y, m, d) == [nat |-> FALSE, y |-> y, m |-> m, d |-> d]

DaysIn(y, m) ==
    IF m \in {4, 6, 9, 11} THEN 30
    ELSE IF m = 2 THEN (IF y % 4 = 0 /\ (y % 100 # 0 \/ y % 400 = 0) THEN 29 ELSE 28)
    ELSE 31

\* pd.to_datetime(text, errors="coerce"): a text that is no calendar date
\* becomes NaT
ToDatetime(t) ==
    IF t[2] \in 1..12 /\ t[3] \in 1..DaysIn(t[1], t[2]) THEN Date(t[1], t[2], t[3]) ELSE NaT

\* d1 < d2 for two datetimes that are not NaT
DateLess(d1, d2) ==
    \/ d1.y < d2.y
    \/ d1.y = d2.y /\ d1.m < d2.m
    \/ d1.y = d2.y /\ d1.m = d2.m /\ d1.d < d2.d

(***************************************************************************)
(* parser.py: the account catalog                                          *)
(***************************************************************************)
DRE_ACCOUNTS ==
    ("3.01" :> "Receita Liquida") @@
    ("3.02" :> "Custo dos Bens e/ou Servicos Vendidos") @@
    ("3.03" :> "Resultado Bruto") @@
    ("3.04" :> "Despesas/Receitas Operacionais") @@
    ("3.05" :> "Resultado Antes do Resultado Financeiro e dos Tributos") @@
    ("3.06" :> "Resultado Financeiro") @@
    ("3.06.01" :> "Receitas Financeiras") @@
    ("3.06.02" :> "Despesas Financeiras") @@
    ("3.07" :> "Resultado Antes dos Tributos sobre o Lucro") @@
    ("3.08" :> "Imposto de Renda e Contribuicao Social") @@
    ("3.09" :> "Resultado Liquido das Operacoes Continuadas") @@
    ("3.11" :> "Lucro/Prejuizo do Periodo")

BPA_ACCOUNTS ==
    ("1" :> "Ativo Total") @@
    ("1.01" :> "Ativo Circulante") @@
    ("1.01.01" :> "Caixa e Equivalentes de Caixa") @@
    ("1.01.02" :> "Aplicacoes Financeiras") @@
    ("1.01.03" :> "Contas a Receber") @@
    ("1.01.04" :> "Estoques") @@
    ("1.02" :> "Ativo Nao Circulante") @@
    ("1.02.01" :> "Ativo Realizavel a Longo Prazo") @@
    ("1.02.02" :> "Investimentos") @@
    ("1.02.03" :> "Imobilizado") @@
    ("1.02.04" :> "Intangivel")

BPP_ACCOUNTS ==
    ("2" :> "Passivo Total") @@
    ("2.01" :> "Passivo Circulante") @@
    ("2.01.04" :> "Emprestimos e Financiamentos CP") @@
    ("2.02" :> "Passivo Nao Circulante") @@
    ("2.02.01" :> "Emprestimos e Financiamentos LP") @@
    ("2.03" :> "Patrimonio Liquido Consolidado") @@
    ("2.03.01" :> "Capital Social Realizado") @@
    ("2.03.04" :> "Reservas de Lucros") @@
    ("2.03.08" :> "Outros Resultados Abrangentes")

DFC_ACCOUNTS ==
    ("6.01" :> "Caixa Liquido Atividades Operacionais") @@
    ("6.02" :> "Caixa Liquido Atividades de Investimento") @@
    ("6.03" :> "Caixa Liquido Atividades de Financiamento") @@
    ("6.05" :> "Aumento (Reducao) de Caixa e Equivalentes")

ACCOUNTS_MAP ==
    [t \in {"DRE", "BPA", "BPP", "DFC_MI", "DFC_MD"} |->
        CASE t = "DRE" -> DRE_ACCOUNTS
          [] t = "BPA" -> BPA_ACCOUNTS
          [] t = "BPP" -> BPP_ACCOUNTS
          [] OTHER     -> DFC_ACCOUNTS]

\* ACCOUNTS_MAP.get(statement_type, {})
AccountsOf(statement_type) ==
    IF statement_type \in DOMAIN ACCOUNTS_MAP THEN ACCOUNTS_MAP[statement_type] ELSE << >>

(***************************************************************************)
(* parser.py: clean_dataframe.  A table is [columns, rows]; a row keeps    *)
(* its index label idx through every filter, as a DataFrame row does.      *)
(***************************************************************************)
EmptyFrame == [columns |-> {}, rows |-> << >>]

MIL    == << "M", "I", "L" >>
\* the exercise-order flag of the latest figures ("ÚLTIMO", written without
\* its accent) and of the restated previous ones
ULTIMO    == << "U", "L", "T", "I", "M", "O" >>
PENULTIMO == << "P", "E", "N", "U", "L", "T", "I", "M", "O" >>

\* lines 116-122: VL_CONTA as text, decimal comma to period, stripped, to a
\* number; what does not parse becomes NaN
ParseValue(text) ==
    IF text = NullText THEN NaN
    ELSE ParseFloat(StrStrip(StrReplace(text, ",", << "." >>)))

\* line 126: the rows whose scale marker is MIL
IsMil(row, columns) ==
    "ESCALA_MOEDA" \in columns /\ StrUpper(StrStrip(row.ESCALA_MOEDA)) = MIL

\* a plausible slip: the marker is compared without trimming and upper-casing
ScaledValue_raw_marker(row, columns) ==
    IF "ESCALA_MOEDA" \in columns /\ row.ESCALA_MOEDA = MIL
    THEN FMul(ParseValue(row.VL_CONTA), Fin(1000))
    ELSE ParseValue(row.VL_CONTA)

\* lines 114-127: the numeric value of a row after the scale correction
ScaledValue(row, columns) ==
    IF IsMil(row, columns)
    THEN FMul(ParseValue(row.VL_CONTA), Fin(1000))
    ELSE ParseValue(row.VL_CONTA)

\* lines 114-132: one row with its value and its reference date converted
ConvertRow(row, columns) ==
    [row EXCEPT !.VL_CONTA = IF "VL_CONTA" \in columns
                             THEN ScaledValue(row, columns) ELSE @,
                !.DT_REFER = IF "DT_REFER" \in columns THEN ToDatetime(@) ELSE @]

\* line 136: the rows of the latest exercise
IsLatest(row) == StrUpper(StrStrip(row.ORDEM_EXERC)) = ULTIMO

\* lines 139-140: the key of a row over the key columns the table has
DedupKey(row, columns) ==
    << IF "CNPJ_CIA" \in columns THEN row.CNPJ_CIA ELSE << >>,
       IF "DT_REFER" \in columns THEN row.DT_REFER ELSE NaT,
       IF "CD_CONTA" \in columns THEN row.CD_CONTA ELSE "" >>

SelectIdx(rows, keep) ==
    LET RECURSIVE Go(_)
        Go(i) == IF i > Len(rows) THEN << >>
                 ELSE (IF i \in keep THEN << rows[i] >> ELSE << >>) \o Go(i + 1)
    IN  Go(1)

\* a plausible slip: drop_duplicates with keep="first"
DropDuplicates_first(rows, columns) ==
    LET keep == {i \in 1..Len(rows) : \A j \in 1..(i - 1) :
                       DedupKey(rows[j], columns) # DedupKey(rows[i], columns)}
    IN  SelectIdx(rows, keep)

\* line 142: drop_duplicates(subset=existing_keys, keep="last"); missing
\* values (NaT) of a key column count as equal
DropDuplicates(rows, columns) ==
    LET keep == {i \in 1..Len(rows) : \A j \in (i + 1)..Len(rows) :
                       DedupKey(rows[j], columns) # DedupKey(rows[i], columns)}
    IN  SelectIdx(rows, keep)

clean_dataframe(df) ==
    IF df.rows = << >> THEN EmptyFrame
    ELSE
        LET converted == [i \in 1..Len(df.rows) |-> ConvertRow(df.rows[i], df.columns)]
            keepLatest == {i \in 1..Len(converted) : IsLatest(converted[i])}
            latest == IF "ORDEM_EXERC" \in df.columns
                      THEN SelectIdx(converted, keepLatest) ELSE converted
            deduped == IF df.columns \cap {"CNPJ_CIA", "DT_REFER", "CD_CONTA"} # {}
                       THEN DropDuplicates(latest, df.columns) ELSE latest
        IN  [columns |-> df.columns, rows |-> deduped]

(***************************************************************************)
(* parser.py: pivot_statement                                              *)
(***************************************************************************)
IndexColumns == {"CNPJ_CIA", "DENOM_CIA", "CD_CVM", "DT_REFER"}

\* the pivot index of a row (line 198)
GroupKey(row) ==
    [CNPJ_CIA |-> row.CNPJ_CIA, DENOM_CIA |-> row.DENOM_CIA,
     CD_CVM |-> row.CD_CVM, DT_REFER |-> row.DT_REFER]

\* a row whose index has a missing value belongs to no group
HasIndex(row) ==
    /\ row.CNPJ_CIA # NullText /\ row.DENOM_CIA # NullText
    /\ row.CD_CVM # NullText /\ row.DT_REFER # NaT

\* the pivot orders its rows by the index, column after column
KeyLess(g, h) ==
    \/ StrLess(g.CNPJ_CIA, h.CNPJ_CIA)
    \/ /\ g.CNPJ_CIA = h.CNPJ_CIA
       /\ \/ StrLess(g.DENOM_CIA, h.DENOM_CIA)
          \/ /\ g.DENOM_CIA = h.DENOM_CIA
             /\ \/ StrLess(g.CD_CVM, h.CD_CVM)
                \/ /\ g.CD_CVM = h.CD_CVM
                   /\ DateLess(g.DT_REFER, h.DT_REFER)

RECURSIVE SortKeys(_)
SortKeys(S) ==
    IF S = {} THEN << >>
    ELSE LET least == CHOOSE g \in S : \A h \in S \ {g} : KeyLess(g, h)
         IN  << least >> \o SortKeys(S \ {least})

\* aggfunc="first": the first value of the cell that is not NaN, NaN if none
FirstValue(rows, matching) ==
    LET hits == {i \in matching : ~IsNaN(rows[i].VL_CONTA)}
    IN  IF hits = {} THEN NaN
        ELSE rows[CHOOSE i \in hits : \A j \in hits : i <= j].VL_CONTA

\* a plausible slip: the rows are not filtered by the catalog, and a code
\* the catalog does not hold keeps its own text as its label
pivot_statement_unfiltered(df, statement_type) ==
    IF df.rows = << >> THEN df
    ELSE
        LET accounts  == AccountsOf(statement_type)
            LabelOf(code) == IF code \in DOMAIN accounts THEN accounts[code] ELSE code
            filtered  == df.rows
            indexed   == {i \in 1..Len(filtered) : HasIndex(filtered[i])}
            grouped   == SelectIdx(filtered, indexed)
            Cell(g, label) ==
                FirstValue(grouped, {i \in 1..Len(grouped) :
                                       /\ GroupKey(grouped[i]) = g
                                       /\ LabelOf(grouped[i].CD_CONTA) = label})
            \* cells without a value are dropped, and with them the groups
            \* and the labels that have no cell left
            present   == {i \in 1..Len(grouped) : ~IsNaN(grouped[i].VL_CONTA)}
            keys      == {GroupKey(grouped[i]) : i \in present}
            labels    == {LabelOf(grouped[i].CD_CONTA) : i \in present}
            ordered   == SortKeys(keys)
        IN  [columns |-> IndexColumns \cup labels,
             rows |-> [i \in 1..Len(ordered) |->
                        [CNPJ_CIA |-> ordered[i].CNPJ_CIA,
                         DENOM_CIA |-> ordered[i].DENOM_CIA,
                         CD_CVM |-> ordered[i].CD_CVM,
                         DT_REFER |-> ordered[i].DT_REFER,
                         cells |-> [label \in labels |-> Cell(ordered[i], label)]]]]

pivot_statement(df, statement_type) ==
    IF df.rows = << >> THEN df
    ELSE
        LET accounts  == AccountsOf(statement_type)
            inCatalog == {i \in 1..Len(df.rows) : df.rows[i].CD_CONTA \in DOMAIN accounts}
            filtered  == SelectIdx(df.rows, inCatalog)
            indexed   == {i \in 1..Len(filtered) : HasIndex(filtered[i])}
            grouped   == SelectIdx(filtered, indexed)
            Cell(g, label) ==
                FirstValue(grouped, {i \in 1..Len(grouped) :
                                       /\ GroupKey(grouped[i]) = g
                                       /\ accounts[grouped[i].CD_CONTA] = label})
            \* cells without a value are dropped, and with them the groups
            \* and the labels that have no cell left
            present   == {i \in 1..Len(grouped) : ~IsNaN(grouped[i].VL_CONTA)}
            keys      == {GroupKey(grouped[i]) : i \in present}
            labels    == {accounts[grouped[i].CD_CONTA] : i \in present}
            ordered   == SortKeys(keys)
        IN  [columns |-> IndexColumns \cup labels,
             rows |-> [i \in 1..Len(ordered) |->
                        [CNPJ_CIA |-> ordered[i].CNPJ_CIA,
                         DENOM_CIA |-> ordered[i].DENOM_CIA,
                         CD_CVM |-> ordered[i].CD_CVM,
                         DT_REFER |-> ordered[i].DT_REFER,
                         cells |-> [label \in labels |-> Cell(ordered[i], label)]]]]

(***************************************************************************)
(* service.py and ticker_mapper.py: get_statement.  An optional text        *)
(* argument is Absent (None) or Text(s); a call returns a table or raises.  *)
(***************************************************************************)
Absent == [some |-> FALSE, s |-> << >>]
Text(s) == [some |-> TRUE, s |-> s]
\* the truth value Python gives an optional text: None and "" are false
Supplied(o) == o.some /\ o.s # << >>

Returned(df) == [raised |-> FALSE, df |-> df]
Raised == [raised |-> TRUE, df |-> EmptyFrame]

DigitChars == << "0", "1", "2", "3", "4", "5", "6", "7", "8", "9" >>
\* the decimal digits of n >= 0, at least width of them
RECURSIVE ZeroPad(_, _)
ZeroPad(n, width) ==
    IF n < 10 /\ width <= 1 THEN << DigitChars[n + 1] >>
    ELSE ZeroPad(n \div 10, width - 1) \o << DigitChars[(n % 10) + 1] >>

\* str(n) of an int
IntText(n) == IF n < 0 THEN << "-" >> \o ZeroPad(-n, 1) ELSE ZeroPad(n, 1)

\* int(text): blanks around and a sign are accepted; a text that is not
\* decimal digits raises ValueError (ok = FALSE)
IntOfText(t) ==
    LET s    == StrStrip(t)
        neg  == s # << >> /\ Head(s) = "-"
        body == IF s # << >> /\ Head(s) \in {"-", "+"} THEN Tail(s) ELSE s
    IN  IF body # << >> /\ AllDigits(body)
        THEN [ok |-> TRUE, v |-> (IF neg THEN -1 ELSE 1) * DigitsValue(body)]
        ELSE [ok |-> FALSE, v |-> 0]

\* line 162: str(int(float(x))) if pd.notna(x) else "" for one CD_CVM cell;
\* float() of a text that is no number raises ValueError (ok = FALSE)
CvmCellText(x) ==
    IF x = NullText THEN [ok |-> TRUE, s |-> << >>]
    ELSE LET f == ParseFloat(StrStrip(x))
         IN  IF IsFin(f)
             THEN [ok |-> TRUE,
                   s |-> IntText(Sign(f) * (Abs(f.n) \div f.d))]
             ELSE [ok |-> FALSE, s |-> << >>]

\* lines 149 and 151-154: the tax id without its punctuation
StripPunctuation(s) == StrReplace(StrReplace(StrReplace(s, ".", << >>), "/", << >>), "-", << >>)

\* line 168: astype(str).str[:10] of a datetime cell
DateText(d) ==
    IF d.nat THEN << "N", "a", "T" >>
    ELSE ZeroPad(d.y, 4) \o << "-" >> \o ZeroPad(d.m, 2) \o << "-" >> \o ZeroPad(d.d, 2)

\* the static table ticker -> tax id (two of its entries)
TICKER_TO_CNPJ ==
    (<< "P", "E", "T", "R", "4" >> :>
        << "3", "3", "0", "0", "0", "1", "6", "7", "0", "0", "0", "1", "0", "1" >>)
    @@ (<< "W", "E", "G", "E", "3" >> :>
        << "8", "4", "4", "2", "9", "6", "9", "5", "0", "0", "0", "1", "1", "1" >>)

\* dict.get(key) of a table of texts
DictGet(dict, key) == IF key \in DOMAIN dict THEN Text(dict[key]) ELSE Absent

\* ticker_mapper.ticker_to_cnpj
ticker_to_cnpj(ticker) == DictGet(TICKER_TO_CNPJ, StrStrip(StrUpper(ticker)))

\* ticker_mapper.ticker_to_cvm, over the index _cnpj_to_cvm of the mapper
ticker_to_cvm(cnpj_to_cvm, ticker) ==
    LET cnpj == DictGet(TICKER_TO_CNPJ, StrStrip(StrUpper(ticker)))
    IN  IF Supplied(cnpj) THEN DictGet(cnpj_to_cvm, cnpj.s) ELSE Absent

\* lines 148-156: the rows whose tax id is cnpj, punctuation apart
ByCnpj(df, cnpj) ==
    [df EXCEPT !.rows = SelectIdx(df.rows,
        {i \in 1..Len(df.rows) :
            StripPunctuation(df.rows[i].CNPJ_CIA) = StripPunctuation(cnpj)})]

\* lines 158-164: the rows whose regulator code is the integer cd_cvm
\* denotes; the caller has checked that both sides convert
ByCvm(df, cd_cvm) ==
    [df EXCEPT !.rows = SelectIdx(df.rows,
        {i \in 1..Len(df.rows) :
            CvmCellText(df.rows[i].CD_CVM).s = IntText(IntOfText(cd_cvm).v)})]

\* lines 166-168: the rows whose reference date reads dt_refer
ByDate(df, dt_refer) ==
    IF "DT_REFER" \in df.columns
    THEN [df EXCEPT !.rows = SelectIdx(df.rows,
            {i \in 1..Len(df.rows) : DateText(df.rows[i].DT_REFER) = dt_refer})]
    ELSE df

\* a plausible slip: December counted among the quarters as well
PeriodMask_december_quarter(d, periodo) ==
    IF StrLower(periodo) = << "a", "n", "u", "a", "l" >> THEN ~d.nat /\ d.m = 12
    ELSE IF StrLower(periodo) = << "t", "r", "i", "m", "e", "s", "t", "r", "a", "l" >>
    THEN ~d.nat /\ d.m \in {3, 6, 9, 12}
    ELSE TRUE

\* lines 172-177: whether a row of reference date d passes the period filter
PeriodMask(d, periodo) ==
    IF StrLower(periodo) = << "a", "n", "u", "a", "l" >> THEN ~d.nat /\ d.m = 12
    ELSE IF StrLower(periodo) = << "t", "r", "i", "m", "e", "s", "t", "r", "a", "l" >>
    THEN ~d.nat /\ d.m \in {3, 6, 9}
    ELSE TRUE

\* lines 170-177
ByPeriod(df, periodo) ==
    IF "DT_REFER" \in df.columns
    THEN [df EXCEPT !.rows = SelectIdx(df.rows,
            {i \in 1..Len(df.rows) : PeriodMask(df.rows[i].DT_REFER, periodo)})]
    ELSE df

\* lines 135-144: the identity the filters use once the ticker is resolved,
\* and the stored table the call reads
ResolvedCvm(cnpj_to_cvm, q) ==
    IF Supplied(q.ticker) /\ ~Supplied(q.cd_cvm) /\ ~Supplied(q.cnpj)
    THEN ticker_to_cvm(cnpj_to_cvm, q.ticker.s) ELSE q.cd_cvm
ResolvedCnpj(cnpj_to_cvm, q) ==
    IF /\ Supplied(q.ticker) /\ ~Supplied(q.cd_cvm) /\ ~Supplied(q.cnpj)
       /\ ~Supplied(ticker_to_cvm(cnpj_to_cvm, q.ticker.s))
    THEN ticker_to_cnpj(q.ticker.s) ELSE q.cnpj
\* line 141: f"{statement}_raw"
RawName == [DRE |-> "DRE_raw", BPA |-> "BPA_raw", BPP |-> "BPP_raw", DFC |-> "DFC_raw"]
StoredTable(tables, q) ==
    LET key == IF q.pivoted THEN q.statement ELSE RawName[q.statement]
    IN  IF key \in DOMAIN tables THEN tables[key] ELSE EmptyFrame

\* a plausible slip: each filter applied to the stored table, the last one
\* supplied deciding the result
get_statement_last_filter(tables, cnpj_to_cvm, q) ==
    LET cd_cvm == ResolvedCvm(cnpj_to_cvm, q)
        cnpj   == ResolvedCnpj(cnpj_to_cvm, q)
        df     == StoredTable(tables, q)
        df1    == IF Supplied(cnpj) THEN ByCnpj(df, cnpj.s) ELSE df
        df2    == IF Supplied(cd_cvm) THEN ByCvm(df, cd_cvm.s) ELSE df1
        df3    == IF Supplied(q.dt_refer) THEN ByDate(df, q.dt_refer.s) ELSE df2
        df4    == IF Supplied(q.periodo) THEN ByPeriod(df, q.periodo.s) ELSE df3
    IN  IF df.rows = << >> THEN Returned(df)
        ELSE IF Supplied(cd_cvm)
                /\ (~IntOfText(cd_cvm.s).ok
                    \/ \E i \in 1..Len(df1.rows) : ~CvmCellText(df1.rows[i].CD_CVM).ok)
        THEN Raised
        ELSE Returned(df4)

\* DataService.get_statement(statement, cnpj, cd_cvm, ticker, dt_refer,
\* periodo, pivoted) over the stored tables and the mapper's index
get_statement(tables, cnpj_to_cvm, q) ==
    LET cd_cvm == ResolvedCvm(cnpj_to_cvm, q)
        cnpj   == ResolvedCnpj(cnpj_to_cvm, q)
        df     == StoredTable(tables, q)
        df1    == IF Supplied(cnpj) THEN ByCnpj(df, cnpj.s) ELSE df
        df2    == IF Supplied(cd_cvm) THEN ByCvm(df1, cd_cvm.s) ELSE df1
        df3    == IF Supplied(q.dt_refer) THEN ByDate(df2, q.dt_refer.s) ELSE df2
        df4    == IF Supplied(q.periodo) THEN ByPeriod(df3, q.periodo.s) ELSE df3
    IN  IF df.rows = << >> THEN Returned(df)
        ELSE IF Supplied(cd_cvm)
                /\ (~IntOfText(cd_cvm.s).ok
                    \/ \E i \in 1..Len(df1.rows) : ~CvmCellText(df1.rows[i].CD_CVM).ok)
        THEN Raised
        ELSE Returned(df4)

(***************************************************************************)
(* parser.py: process_all_statements, the two cash-flow tables              *)
(***************************************************************************)
\* dfc_df while it is None, and once a table is assigned to it
NoTable == [some |-> FALSE, df |-> EmptyFrame]
Table(df) == [some |-> TRUE, df |-> df]
\* the result dict before a key is stored in it
NoTables == [k \in {} |-> EmptyFrame]

\* line 283, str(r["DT_REFER"]): a datetime cell taken out of its row is
\* written with its time of day, a missing one as "NaT"
TimestampText(d) ==
    IF d.nat THEN DateText(d)
    ELSE DateText(d) \o << " ", "0", "0", ":", "0", "0", ":", "0", "0" >>

\* lines 278-280: the (CNPJ_CIA, DT_REFER) pairs of the indirect-method
\* table; astype(str) writes a datetime column whose cells hold no time of
\* day as the dates alone
ExistingKeys(dfc_df) ==
    {<< dfc_df.rows[i].CNPJ_CIA, DateText(dfc_df.rows[i].DT_REFER) >> :
        i \in 1..Len(dfc_df.rows)}

\* lines 281-286: the direct-method rows whose pair is not among the keys
NewRows(dfc_md, existing_keys) ==
    SelectIdx(dfc_md.rows,
        {i \in 1..Len(dfc_md.rows) :
            << dfc_md.rows[i].CNPJ_CIA, TimestampText(dfc_md.rows[i].DT_REFER) >>
                \notin existing_keys})

\* line 287: pd.concat([a, b], ignore_index=True)
Concat(a, b) ==
    LET rows == a.rows \o b.rows
    IN  [columns |-> a.columns \cup b.columns,
         rows |-> [i \in 1..Len(rows) |-> [rows[i] EXCEPT !.idx = i]]]

\* lines 270-289: dfc_df after both cash-flow keys of raw_data are handled
CombinedDfc(raw_data) ==
    LET dfc_mi == IF "DFC_MI" \in DOMAIN raw_data
                  THEN Table(clean_dataframe(raw_data["DFC_MI"])) ELSE NoTable
    IN  IF "DFC_MD" \in DOMAIN raw_data
        THEN LET dfc_md == clean_dataframe(raw_data["DFC_MD"])
             IN  IF dfc_mi.some
                 THEN Table(Concat(dfc_mi.df,
                        [dfc_md EXCEPT !.rows = NewRows(dfc_md, ExistingKeys(dfc_mi.df))]))
                 ELSE Table(dfc_md)
        ELSE dfc_mi

\* lines 291-293: the cash-flow keys of the result
DfcResult(dfc_df) ==
    IF dfc_df.some /\ dfc_df.df.rows # << >>
    THEN ("DFC_raw" :> dfc_df.df) @@ ("DFC" :> pivot_statement(dfc_df.df, "DFC_MI"))
    ELSE NoTables

(***************************************************************************)
(* overview.py: compute_overview.  A statement argument is None (NoFrame)   *)
(* or a pivoted table; a dict is a function of its keys, {} is << >>.       *)
(***************************************************************************)
NoFrame == [columns |-> {"<None>"}, rows |-> << >>]
\* df is not None and not df.empty
Usable(df) == df # NoFrame /\ df.rows # << >>
\* df.iloc[-1]
LastRow(df) == df.rows[Len(df.rows)]
\* df.iloc[-1].to_dict() if df is not None and not df.empty else {}
LatestDict(df) == IF Usable(df) THEN LastRow(df).cells ELSE << >>

\* _get(row, key, default) for a label column of a row's dict
_get(row, key, default) ==
    IF key \in DOMAIN row /\ ~IsNone(row[key]) /\ ~IsNaN(row[key]) THEN row[key]
    ELSE default

\* x or 0
OrZero(x) == IF Truthy(x) THEN x ELSE Fin(0)
\* max(x, 0)
MaxZero(x) == IF ~IsNaN(x) /\ Sign(x) < 0 THEN Fin(0) ELSE x

BRAZIL_TAX_RATE == Rat(34, 100)

OverviewReturned(result) == [raised |-> FALSE, error |-> "", result |-> result]
OverviewRaised(error) == [raised |-> TRUE, error |-> error, result |-> << >>]

\* lines 109-119
EmptyResult ==
    [company |-> << >>, latest_period |-> NaT, margins |-> << >>, returns |-> << >>,
     financial_health |-> << >>, leverage |-> << >>, cash_flow |-> << >>,
     growth |-> << >>, history |-> << >>]

\* lines 122-129: the identity of the last row of the first usable table
CompanyOf(all_dfs) ==
    LET usable == {i \in 1..Len(all_dfs) :
                      Usable(all_dfs[i]) /\ "DENOM_CIA" \in all_dfs[i].columns}
    IN  IF usable = {} THEN << >>
        ELSE LET latest == LastRow(all_dfs[CHOOSE i \in usable : \A j \in usable : i <= j])
             IN  [nome |-> latest.DENOM_CIA, cnpj |-> latest.CNPJ_CIA,
                  cd_cvm |-> latest.CD_CVM]

\* line 133
UseDre(dre_df, dre_annual_df) == IF Usable(dre_annual_df) THEN dre_annual_df ELSE dre_df

\* lines 139-175: the local variables bound when line 177 is reached
LocalsAtHealth(use_dre, bpa_df, bpp_df) ==
    LET latest_dre == LastRow(use_dre).cells
        latest_bpa == LatestDict(bpa_df)
        latest_bpp == LatestDict(bpp_df)
        caixa      == _get(latest_bpa, "Caixa e Equivalentes de Caixa", Fin(0))
        aplic_fin  == _get(latest_bpa, "Aplicacoes Financeiras", Fin(0))
        emprestimos_cp == _get(latest_bpp, "Emprestimos e Financiamentos CP", Fin(0))
        emprestimos_lp == _get(latest_bpp, "Emprestimos e Financiamentos LP", Fin(0))
        caixa_total  == FAdd(OrZero(caixa), OrZero(aplic_fin))
        divida_bruta == FAdd(OrZero(emprestimos_cp), OrZero(emprestimos_lp))
    IN  [receita |-> _get(latest_dre, "Receita Liquida", Fin(0)),
         resultado_bruto |-> _get(latest_dre, "Resultado Bruto", None),
         ebit |-> _get(latest_dre, "EBIT", None),
         ebt |-> _get(latest_dre, "EBT", None),
         lucro |-> _get(latest_dre, "Lucro/Prejuizo Consolidado do Periodo", None),
         ativo_total |-> _get(latest_bpa, "Ativo Total", None),
         caixa_total |-> caixa_total,
         divida_bruta |-> divida_bruta,
         divida_liquida |-> FSub(divida_bruta, caixa_total),
         patrimonio_liq |-> _get(latest_bpp, "Patrimonio Liquido Consolidado", None),
         desp_financeiras |->
             FAbs(OrZero(_get(latest_dre, "Despesas Financeiras", Fin(0))))]

\* lines 149-157
Margins(l) ==
    [receita |-> _safe_round(l.receita, 0),
     bruta |-> _safe_pct(l.resultado_bruto, l.receita),
     ebit |-> _safe_pct(l.ebit, l.receita),
     ebit_value |-> _safe_round(l.ebit, 0),
     pre_imposto |-> _safe_pct(l.ebt, l.receita),
     liquida |-> _safe_pct(l.lucro, l.receita),
     lucro_value |-> _safe_round(l.lucro, 0)]

\* lines 177-186, for a value of ebitda
FinancialHealth(l, ebitda) ==
    [ativo_total |-> _safe_round(l.ativo_total, 0),
     caixa |-> _safe_round(l.caixa_total, 0),
     divida_bruta |-> _safe_round(l.divida_bruta, 0),
     divida_liquida |-> _safe_round(l.divida_liquida, 0),
     patrimonio_liquido |-> _safe_round(l.patrimonio_liq, 0),
     debt_equity |-> _safe_round(_safe_div(l.divida_bruta, l.patrimonio_liq), 2),
     divida_liq_ebitda |->
         IF Truthy(ebitda) /\ GtZero(ebitda)
         THEN _safe_round(_safe_div(l.divida_liquida, ebitda), 2) ELSE None,
     ebit_interest |->
         IF Truthy(l.desp_financeiras)
         THEN _safe_round(_safe_div(l.ebit, l.desp_financeiras), 2) ELSE None]

\* lines 189-200, for a value of ebitda
Leverage(l, ebitda) ==
    [divida_liq_ebitda |->
         IF Truthy(ebitda) /\ GtZero(ebitda)
         THEN _safe_round(_safe_div(l.divida_liquida, ebitda), 2) ELSE None,
     divida_liq_ebit |->
         IF Truthy(l.ebit) /\ ~EqZero(l.ebit)
         THEN _safe_round(_safe_div(l.divida_liquida, l.ebit), 2) ELSE None,
     divida_liq_pl |-> _safe_round(_safe_div(l.divida_liquida, l.patrimonio_liq), 2),
     divida_bruta_pl |-> _safe_round(_safe_div(l.divida_bruta, l.patrimonio_liq), 2),
     divida_bruta_ativo |-> _safe_pct(l.divida_bruta, l.ativo_total),
     ebit_desp_fin |->
         IF Truthy(l.desp_financeiras)
         THEN _safe_round(_safe_div(l.ebit, l.desp_financeiras), 2) ELSE None,
     ebitda_desp_fin |->
         IF Truthy(l.desp_financeiras) /\ Truthy(ebitda)
         THEN _safe_round(_safe_div(ebitda, l.desp_financeiras), 2) ELSE None,
     divida_liquida |-> _safe_round(l.divida_liquida, 0),
     divida_bruta |-> _safe_round(l.divida_bruta, 0),
     ebitda |-> _safe_round(ebitda, 0)]

\* lines 203-214
Returns(l) ==
    LET nopat == FMul(l.ebit, FSub(Fin(1), BRAZIL_TAX_RATE))
        capital_investido == FAdd(OrZero(l.patrimonio_liq), MaxZero(l.divida_liquida))
    IN  [roa |-> _safe_pct(l.lucro, l.ativo_total),
         roe |-> _safe_pct(l.lucro, l.patrimonio_liq),
         roic |-> IF Truthy(l.ebit) /\ Truthy(l.patrimonio_liq)
                     /\ ~IsNone(l.divida_liquida) /\ GtZero(capital_investido)
                  THEN _safe_pct(nopat, capital_investido) ELSE None]

\* lines 227-228: EBITDA = EBIT + |D&A|
Ebitda(l, dfc_df) ==
    LET da == _get(LatestDict(dfc_df), "Depreciacao e Amortizacao", Fin(0))
    IN  IF ~IsNone(l.ebit) THEN FAdd(OrZero(l.ebit), FAbs(OrZero(da))) ELSE None

\* lines 217-224 and 234-241
CashFlow(l, dfc_df) ==
    LET latest_dfc == LatestDict(dfc_df)
        fco    == _get(latest_dfc, "Caixa Liquido Atividades Operacionais", None)
        capex  == FAdd(OrZero(_get(latest_dfc, "Aquisicao de Imobilizado", Fin(0))),
                       OrZero(_get(latest_dfc, "Aquisicao de Intangivel", Fin(0))))
        fcf    == IF Truthy(fco) THEN FAdd(OrZero(fco), capex) ELSE None
        dividendos == _get(latest_dfc, "Pagamento de Dividendos", None)
    IN  [fco |-> _safe_round(fco, 0),
         capex |-> _safe_round(capex, 0),
         fcf |-> _safe_round(fcf, 0),
         fcf_margin |-> IF Truthy(fcf) /\ Truthy(l.receita)
                        THEN _safe_pct(fcf, l.receita) ELSE None,
         dividendos |-> _safe_round(dividendos, 0),
         payout |-> IF Truthy(dividendos) /\ Truthy(l.lucro) /\ GtZero(l.lucro)
                    THEN _safe_pct(FAbs(OrZero(dividendos)), l.lucro) ELSE None]

\* lines 325-331 and 359-362, 408-409: the points one series of the history
\* gets from the rows of the annual income table, in the order of the rows;
\* a row adds a point when its figure is neither absent nor zero
RECURSIVE HistorySeries(_, _, _)
HistorySeries(annual, label, i) ==
    IF i > Len(annual.rows) THEN << >>
    ELSE LET v == _get(annual.rows[i].cells, label, None)
         IN  (IF Truthy(v)
              THEN << [dt |-> DateText(annual.rows[i].DT_REFER), value |-> _safe_round(v, 0)] >>
              ELSE << >>)
             \o HistorySeries(annual, label, i + 1)

\* lines 309-318: one turn of the loop of _annual_dict; the row replaces
\* the entry of its year unless that entry is of a later month
AnnualStep(out, row) ==
    LET y == row.DT_REFER.y
        m == row.DT_REFER.m
    IN  IF y \notin DOMAIN out \/ m >= out[y]._month
        THEN (y :> [DT_REFER |-> row.DT_REFER, cells |-> row.cells, _month |-> m]) @@ out
        ELSE out

RECURSIVE AnnualFold(_, _, _)
AnnualFold(df, i, out) ==
    IF i > Len(df.rows) THEN out
    ELSE AnnualFold(df, i + 1,
                    \* "if not dt: continue"
                    IF df.rows[i].DT_REFER.nat THEN out ELSE AnnualStep(out, df.rows[i]))

\* _annual_dict(df), lines 303-319: year -> the row of the year's last
\* period, {} for a table that is None or empty
_annual_dict(df) == IF Usable(df) THEN AnnualFold(df, 1, << >>) ELSE << >>

\* by_year.get(y, {}), lines 340-342
YearDict(by_year, y) == IF y \in DOMAIN by_year THEN by_year[y].cells ELSE << >>

\* lines 344, 352-354: the figures of the year of one income row
CapexOfYear(dfc_y) ==
    FAdd(OrZero(_get(dfc_y, "Aquisicao de Imobilizado", Fin(0))),
         OrZero(_get(dfc_y, "Aquisicao de Intangivel", Fin(0))))
FcfOfYear(dfc_y) ==
    LET fco_y == _get(dfc_y, "Caixa Liquido Atividades Operacionais", None)
    IN  IF Truthy(fco_y) THEN FAdd(OrZero(fco_y), CapexOfYear(dfc_y)) ELSE None

\* lines 325-331, 378-379, 400-403: the points the series roa, fco and fcf
\* get from the rows of the annual income table and the rows of their years
RECURSIVE HistoryByYear(_, _, _, _, _)
HistoryByYear(annual, bpa_by_year, dfc_by_year, name, i) ==
    IF i > Len(annual.rows) THEN << >>
    ELSE LET row   == annual.rows[i]
             y     == row.DT_REFER.y
             luc   == _get(row.cells, "Lucro/Prejuizo Consolidado do Periodo", None)
             at    == _get(YearDict(bpa_by_year, y), "Ativo Total", None)
             dfc_y == YearDict(dfc_by_year, y)
             fco_y == _get(dfc_y, "Caixa Liquido Atividades Operacionais", None)
             fcf_y == FcfOfYear(dfc_y)
             dt    == DateText(row.DT_REFER)
             point == IF name = "roa"
                      THEN IF Truthy(luc) /\ Truthy(at)
                           THEN << [dt |-> dt,
                                    value |-> _safe_round(FMul(FDiv(luc, at), Fin(100)), 2)] >>
                           ELSE << >>
                      ELSE IF name = "fco"
                      THEN IF Truthy(fco_y)
                           THEN << [dt |-> dt, value |-> _safe_round(fco_y, 0)] >>
                           ELSE << >>
                      ELSE IF ~IsNone(fcf_y)
                           THEN << [dt |-> dt, value |-> _safe_round(fcf_y, 0)] >>
                           ELSE << >>
         IN  (IF row.DT_REFER.nat THEN << >> ELSE point)
             \o HistoryByYear(annual, bpa_by_year, dfc_by_year, name, i + 1)

\* lines 321-440: the series of the history
History(annual, bpa_df, dfc_df) ==
    [receita |-> HistorySeries(annual, "Receita Liquida", 1),
     lucro |-> HistorySeries(annual, "Lucro/Prejuizo Consolidado do Periodo", 1),
     ebit |-> HistorySeries(annual, "EBIT", 1),
     roa |-> HistoryByYear(annual, _annual_dict(bpa_df), _annual_dict(dfc_df), "roa", 1),
     fco |-> HistoryByYear(annual, _annual_dict(bpa_df), _annual_dict(dfc_df), "fco", 1),
     fcf |-> HistoryByYear(annual, _annual_dict(bpa_df), _annual_dict(dfc_df), "fcf", 1)]

\* compute_overview(dre_df, bpa_df, bpp_df, dfc_df, dre_annual_df), lines
\* 95-241.  A Python function's variable is local to it from its first
\* line on, so reading ebitda before the assignment of line 228 raises
\* UnboundLocalError: l holds the locals bound when line 184 reads it.
compute_overview(dre_df, bpa_df, bpp_df, dfc_df, dre_annual_df) ==
    LET company == CompanyOf(<< dre_df, bpa_df, bpp_df, dfc_df >>)
        use_dre == UseDre(dre_df, dre_annual_df)
    IN  IF ~Usable(use_dre)
        THEN OverviewReturned([EmptyResult EXCEPT !.company = company])
        ELSE LET l == LocalsAtHealth(use_dre, bpa_df, bpp_df)
             IN  IF "ebitda" \notin DOMAIN l
                 THEN OverviewRaised("UnboundLocalError")
                 ELSE OverviewReturned(
                        [EmptyResult EXCEPT
                            !.company = company,
                            !.latest_period = LastRow(use_dre).DT_REFER,
                            !.financial_health = FinancialHealth(l, l.ebitda),
                            !.leverage = Leverage(l, l.ebitda),
                            !.returns = Returns(l),
                            !.margins = Margins(l) @@
                                [ebitda_value |-> _safe_round(Ebitda(l, dfc_df), 0),
                                 ebitda |-> _safe_pct(Ebitda(l, dfc_df), l.receita)],
                            !.cash_flow = CashFlow(l, dfc_df),
                            !.history = History(use_dre, bpa_df, dfc_df)])

(***************************************************************************)
(* ticker_mapper.py: enrich_dataframe                                      *)
(***************************************************************************)
\* ", ".join(tickers) for the tickers of a set, in the order of the table
RECURSIVE JoinTickers(_)
JoinTickers(S) ==
    IF S = {} THEN << >>
    ELSE LET first == CHOOSE t \in S : \A u \in S \ {t} : StrLess(t, u)
         IN  IF S = {first} THEN first
             ELSE first \o << ",", " " >> \o JoinTickers(S \ {first})

\* CNPJ_TO_TICKERS.get(tax id without punctuation, []) joined
TickersOf(cnpj) ==
    JoinTickers({t \in DOMAIN TICKER_TO_CNPJ : TICKER_TO_CNPJ[t] = StripPunctuation(cnpj)})

\* TickerMapper.enrich_dataframe: a copy of df with the column TICKERS
enrich_dataframe(df) ==
    IF df.rows = << >> \/ "CNPJ_CIA" \notin df.columns THEN df
    ELSE [df EXCEPT
            !.columns = @ \cup {"TICKERS"},
            !.rows = [i \in 1..Len(@) |->
                        [TICKERS |-> TickersOf(@[i].CNPJ_CIA)] @@ @[i]]]

(***************************************************************************)
(* api.py: get_screener.  compute_indicadores and fetch_batch_market_data  *)
(* are imported by api.py from modules that do not define them; they are   *)
(* taken from the documented contract of the indicator engine and of the   *)
(* market data: a batch maps a ticker to a dict of optional numbers.       *)
(***************************************************************************)
\* the tickers of TICKER_TO_CNPJ in the order the table lists them
TICKER_ORDER == << << "P", "E", "T", "R", "4" >>, << "W", "E", "G", "E", "3" >> >>

\* CNPJ_TO_TICKERS[cnpj]: the tickers of one tax id, in table order
RECURSIVE TickerList(_, _)
TickerList(cnpj, i) ==
    IF i > Len(TICKER_ORDER) THEN << >>
    ELSE (IF TICKER_TO_CNPJ[TICKER_ORDER[i]] = cnpj THEN << TICKER_ORDER[i] >> ELSE << >>)
         \o TickerList(cnpj, i + 1)

\* the loop of get_all_mapped_companies from entry i on
RECURSIVE MappedCompanies(_, _, _)
MappedCompanies(cnpj_to_cvm, i, seen_cnpjs) ==
    IF i > Len(TICKER_ORDER) THEN << >>
    ELSE LET cnpj   == TICKER_TO_CNPJ[TICKER_ORDER[i]]
             cd_cvm == DictGet(cnpj_to_cvm, cnpj)
             rest   == MappedCompanies(cnpj_to_cvm, i + 1, seen_cnpjs \cup {cnpj})
         IN  IF cnpj \in seen_cnpjs \/ ~Supplied(cd_cvm) THEN rest
             ELSE << [ticker |-> TickerList(cnpj, 1)[1],
                      tickers |-> TickerList(cnpj, 1),
                      cnpj |-> cnpj, cd_cvm |-> cd_cvm.s] >> \o rest

\* TickerMapper.get_all_mapped_companies
get_all_mapped_companies(cnpj_to_cvm) == MappedCompanies(cnpj_to_cvm, 1, {})

\* d.get(key) of a dict of optional numbers
NumGet(d, key) == IF key \in DOMAIN d THEN d[key] ELSE None

\* the cells of the row of df whose reference date is d ({} when none is)
CellsAt(df, d) ==
    LET at == {i \in 1..Len(df.rows) : df.rows[i].DT_REFER = d}
    IN  IF at = {} THEN << >>
        ELSE df.rows[CHOOSE i \in at : \A j \in at : j <= i].cells

\* the dates of a set in ascending order
RECURSIVE DatesAscending(_)
DatesAscending(S) ==
    IF S = {} THEN << >>
    ELSE LET least == CHOOSE d \in S : \A e \in S \ {d} : DateLess(d, e)
         IN  << least >> \o DatesAscending(S \ {least})

\* the indicator set of the period of reference date d: figures rounded to
\* the unit, an indicator without its inputs absent
IndicatorSet(d, dre, bpa, bpp, dfc) ==
    LET ebit    == _get(dre, "EBIT", None)
        da      == _get(dfc, "Depreciacao e Amortizacao", Fin(0))
        ebitda  == IF IsNone(ebit) THEN None ELSE FAdd(ebit, FAbs(da))
        caixa   == FAdd(_get(bpa, "Caixa e Equivalentes de Caixa", Fin(0)),
                        _get(bpa, "Aplicacoes Financeiras", Fin(0)))
        divida  == FAdd(_get(bpp, "Emprestimos e Financiamentos CP", Fin(0)),
                        _get(bpp, "Emprestimos e Financiamentos LP", Fin(0)))
        fco     == _get(dfc, "Caixa Liquido Atividades Operacionais", None)
        capex   == FAdd(_get(dfc, "Aquisicao de Imobilizado", Fin(0)),
                        _get(dfc, "Aquisicao de Intangivel", Fin(0)))
    IN  [DT_REFER |-> d,
         values |->
            ("Receita Liquida" :> _safe_round(_get(dre, "Receita Liquida", None), 0))
            @@ ("Lucro Liquido" :>
                    _safe_round(_get(dre, "Lucro/Prejuizo Consolidado do Periodo", None), 0))
            @@ ("EBIT" :> _safe_round(ebit, 0))
            @@ ("EBITDA" :> _safe_round(ebitda, 0))
            @@ ("Patrimonio Liquido" :>
                    _safe_round(_get(bpp, "Patrimonio Liquido Consolidado", None), 0))
            @@ ("Divida Liquida" :> _safe_round(FSub(divida, caixa), 0))
            @@ ("FCF" :> IF IsNone(fco) THEN None ELSE _safe_round(FAdd(fco, capex), 0))]

\* compute_indicadores(dre, bpa, bpp, dfc): one indicator set per reference
\* date of the income table, in ascending order of date
compute_indicadores(dre, bpa, bpp, dfc) ==
    IF ~Usable(dre) THEN << >>
    ELSE LET order == DatesAscending({dre.rows[i].DT_REFER : i \in 1..Len(dre.rows)}
                                     \ {NaT})
         IN  [i \in 1..Len(order) |->
                IndicatorSet(order[i], CellsAt(dre, order[i]),
                    IF Usable(bpa) THEN CellsAt(bpa, order[i]) ELSE << >>,
                    IF Usable(bpp) THEN CellsAt(bpp, order[i]) ELSE << >>,
                    IF Usable(dfc) THEN CellsAt(dfc, order[i]) ELSE << >>)]

\* the arguments of the four get_statement calls of the loop (lines 568-571)
ScreenerQuery(statement, cd_cvm, periodo) ==
    [statement |-> statement, pivoted |-> TRUE, ticker |-> Absent, cnpj |-> Absent,
     cd_cvm |-> Text(cd_cvm), dt_refer |-> Absent, periodo |-> periodo]

\* lines 582-586: a float that is NaN or infinite becomes None
CleanValue(v) == IF IsNaN(v) \/ IsInf(v) THEN None ELSE v

NoRow == << >>
\* a plausible slip: "except: continue", the failure swallowed uncounted
ScreenerIteration_uncounted(st, comp, fault) ==
    IF st.dre.raised \/ st.bpa.raised \/ st.bpp.raised \/ st.dfc.raised \/ fault
    THEN [kind |-> "none", row |-> NoRow]
    ELSE LET indicadores == compute_indicadores(st.dre.df, st.bpa.df, st.bpp.df, st.dfc.df)
             IN  IF indicadores = << >> THEN [kind |-> "none", row |-> NoRow]
                 ELSE LET latest == indicadores[Len(indicadores)]
                      IN  [kind |-> "row",
                           row |-> [ticker |-> comp.ticker, tickers |-> comp.tickers,
                                    cd_cvm |-> comp.cd_cvm,
                                    DT_REFER |-> latest.DT_REFER,
                                    metrics |-> [k \in DOMAIN latest.values |->
                                                    CleanValue(latest.values[k])]]]

\* lines 568-571: the four statements fetched for the company comp
ScreenerStatementsOf(tables, cnpj_to_cvm, comp) ==
    LET anual == Text(<< "a", "n", "u", "a", "l" >>)
    IN  [dre |-> get_statement(tables, cnpj_to_cvm, ScreenerQuery("DRE", comp.cd_cvm, anual)),
         bpa |-> get_statement(tables, cnpj_to_cvm, ScreenerQuery("BPA", comp.cd_cvm, Absent)),
         bpp |-> get_statement(tables, cnpj_to_cvm, ScreenerQuery("BPP", comp.cd_cvm, Absent)),
         dfc |-> get_statement(tables, cnpj_to_cvm, ScreenerQuery("DFC", comp.cd_cvm, anual))]

\* lines 563-601: the rest of one iteration of the loop for the company
\* comp, on the statements st fetched for it; fault says that
\* compute_indicadores raises.  The iteration ends in an error entry, in no
\* entry (no indicators) or in a row
ScreenerIteration(st, comp, fault) ==
    IF st.dre.raised \/ st.bpa.raised \/ st.bpp.raised \/ st.dfc.raised \/ fault
    THEN [kind |-> "error", row |-> NoRow]
    ELSE LET indicadores == compute_indicadores(st.dre.df, st.bpa.df, st.bpp.df, st.dfc.df)
             IN  IF indicadores = << >> THEN [kind |-> "none", row |-> NoRow]
                 ELSE LET latest == indicadores[Len(indicadores)]
                      IN  [kind |-> "row",
                           row |-> [ticker |-> comp.ticker, tickers |-> comp.tickers,
                                    cd_cvm |-> comp.cd_cvm,
                                    DT_REFER |-> latest.DT_REFER,
                                    metrics |-> [k \in DOMAIN latest.values |->
                                                    CleanValue(latest.values[k])]]]

\* x if x else None, rounded
RoundIf(x, nd) == IF Truthy(x) THEN Round(x, nd) ELSE None

\* a plausible slip: the guard den > 0 forgotten
Multiple_unguarded(num, den) ==
    IF Truthy(num) /\ Truthy(den) THEN Round(FDiv(num, den), 1) ELSE None

\* lines 639-645: round(num / den, 1) if num and den and den > 0 else None
Multiple(num, den) ==
    IF Truthy(num) /\ Truthy(den) /\ GtZero(den) THEN Round(FDiv(num, den), 1) ELSE None

\* lines 613-645: the valuation fields written into one row
Valuation(row, market_batch) ==
    LET md == IF row.ticker \in DOMAIN market_batch THEN market_batch[row.ticker] ELSE << >>
        price  == NumGet(md, "price")
        shares == NumGet(md, "shares")
        mc0    == NumGet(md, "market_cap")
        ev_direct == NumGet(md, "enterprise_value")
        mc == IF ~Truthy(mc0) /\ Truthy(price) /\ Truthy(shares)
              THEN FMul(price, shares) ELSE mc0
        dl == OrZero(NumGet(row.metrics, "Divida Liquida"))
        ev == IF Truthy(ev_direct) THEN ev_direct
              ELSE IF Truthy(mc) THEN FAdd(mc, dl) ELSE None
        rec    == NumGet(row.metrics, "Receita Liquida")
        luc    == NumGet(row.metrics, "Lucro Liquido")
        ebitda == NumGet(row.metrics, "EBITDA")
        ebit   == NumGet(row.metrics, "EBIT")
        pl     == NumGet(row.metrics, "Patrimonio Liquido")
        fcf    == NumGet(row.metrics, "FCF")
    IN  [row EXCEPT !.metrics =
            ("Preco" :> RoundIf(price, 2))
            @@ ("Market Cap" :> RoundIf(mc, 0))
            @@ ("EV" :> RoundIf(ev, 0))
            @@ ("P/E" :> Multiple(mc, luc))
            @@ ("P/B" :> Multiple(mc, pl))
            @@ ("EV/EBITDA" :> Multiple(ev, ebitda))
            @@ ("EV/EBIT" :> Multiple(ev, ebit))
            @@ ("EV/Sales" :> Multiple(ev, rec))
            @@ ("P/Sales" :> Multiple(mc, rec))
            @@ ("P/FCF" :> Multiple(mc, fcf))
            @@ @]

(***************************************************************************)
(* The transport boundary: df_to_response of both API versions and         *)
(* get_company_financials.  A record is a row whose date is a text.        *)
(***************************************************************************)
\* df.iloc[offset : offset + limit]
Page(rows, limit, offset) ==
    SelectIdx(rows, {i \in 1..Len(rows) : offset < i /\ i <= offset + limit})

\* the date columns made texts (strftime "%Y-%m-%d"), then to_dict(orient="records")
ToRecords(rows) ==
    [i \in 1..Len(rows) |-> [rows[i] EXCEPT !.DT_REFER = DateText(@)]]

\* src/app/api.py: a float that is NaN or infinite becomes None
_clean_records(records) ==
    [i \in 1..Len(records) |->
        [records[i] EXCEPT !.cells =
            [k \in DOMAIN @ |-> IF IsNaN(@[k]) \/ IsInf(@[k]) THEN None ELSE @[k]]]]

EmptyPage(limit, offset) == [data |-> << >>, total |-> 0, limit |-> limit, offset |-> offset]

\* src/app/api.py: df_to_response
df_to_response(df, limit, offset) ==
    IF ~Usable(df) THEN EmptyPage(limit, offset)
    ELSE [data |-> _clean_records(ToRecords(Page(df.rows, limit, offset))),
          total |-> Len(df.rows), limit |-> limit, offset |-> offset]

\* src/cvm-financials-api/app/api.py: df_to_response, the records as they are
df_to_response_v1(df, limit, offset) ==
    IF ~Usable(df) THEN EmptyPage(limit, offset)
    ELSE [data |-> ToRecords(Page(df.rows, limit, offset)),
          total |-> Len(df.rows), limit |-> limit, offset |-> offset]

\* service.py 204-220: the records of one statement of the company
FinancialsOf(st) == IF st.df.rows # << >> THEN _clean_records(ToRecords(st.df.rows)) ELSE << >>

\* DataService.get_company_financials(cnpj, cd_cvm, ticker)
get_company_financials(tables, cnpj_to_cvm, who) ==
    LET q(stmt) == [statement |-> stmt, pivoted |-> TRUE, ticker |-> Absent,
                    dt_refer |-> Absent, periodo |-> Absent,
                    cd_cvm |-> ResolvedCvm(cnpj_to_cvm, who),
                    cnpj |-> ResolvedCnpj(cnpj_to_cvm, who)]
        st == [stmt \in {"DRE", "BPA", "BPP", "DFC"} |->
                    get_statement(tables, cnpj_to_cvm, q(stmt))]
    IN  IF \E stmt \in DOMAIN st : st[stmt].raised
        THEN [raised |-> TRUE, result |-> << >>]
        ELSE [raised |-> FALSE, result |-> [stmt \in DOMAIN st |-> FinancialsOf(st[stmt])]]

\* service.py 204-210: get_statement hands back the stored table itself
\* when no filter applies, and "df[col] = df[col].dt.strftime(..)" then
\* overwrites its date column with texts; a filtered table is a copy
StoredAfterFinancials(tables, cnpj_to_cvm, who) ==
    IF Supplied(ResolvedCvm(cnpj_to_cvm, who)) \/ Supplied(ResolvedCnpj(cnpj_to_cvm, who))
    THEN tables
    ELSE [k \in DOMAIN tables |->
             IF k \in {"DRE", "BPA", "BPP", "DFC"} /\ tables[k].rows # << >>
             THEN [tables[k] EXCEPT !.rows = ToRecords(@)] ELSE tables[k]]

(***************************************************************************)
(* Bounds                                                                  *)
(***************************************************************************)
MaxVal == 2
MaxPoints == 3
MaxDedupRows == 3
MaxScaleRows == 2
MaxPivotRows == 2
MaxStatementRows == 2
MaxOverviewRows == 1
MaxLoads == 2

Numbers == {None, NaN, PInf, NInf} \cup {Fin(i) : i \in (-MaxVal)..MaxVal}

\* the series _cagr is tried on: any order of years, absent, zero, negative
\* and positive values
SeriesYears  == {2017, 2019, 2020, 2022}
SeriesValues == {None, Fin(0), Fin(-50), Fin(1000), Fin(1331)}
SeriesPoints == [y : SeriesYears, v : SeriesValues]
AllSeries    == UNION {[1..len -> SeriesPoints] : len \in 0..MaxPoints}
\* the horizons compute_overview asks for (lines 267-275)
Horizons     == {3, 5, 10}

\* the raw tables the cleaner and the pivoter are tried on
Seqs(S, maxlen) == UNION {[1..len -> S] : len \in 0..maxlen}
\* a table of the given rows, each with its position as index label
Frame(columns, rows) ==
    [columns |-> columns, rows |-> [i \in 1..Len(rows) |-> rows[i] @@ [idx |-> i]]]

RawColumns == {"CNPJ_CIA", "DENOM_CIA", "CD_CVM", "DT_REFER", "ORDEM_EXERC",
               "CD_CONTA", "VL_CONTA", "ESCALA_MOEDA"}
Cnpj1 == << "1", "1" >>
Name1 == << "A" >>
Name2 == << "Z" >>
Cvm1  == << "9" >>
Cvm2  == << "1", "0" >>
Dec2023 == << 2023, 12, 31 >>
Dec2022 == << 2022, 12, 31 >>
\* two texts that are no calendar date
Feb30   == << 2023, 2, 30 >>
Month13 == << 2023, 13, 1 >>
UltimoLower == << " ", "u", "l", "t", "i", "m", "o" >>
MilLower    == << " ", "m", "i", "l", " " >>
UNIDADE     == << "U", "N", "I", "D", "A", "D", "E" >>

\* records that share keys, with every exercise-order flag
DedupRecords ==
    [CNPJ_CIA : {Cnpj1}, DENOM_CIA : {Name1}, CD_CVM : {Cvm1},
     DT_REFER : {Dec2023, Feb30, Month13},
     ORDEM_EXERC : {ULTIMO, UltimoLower, PENULTIMO},
     CD_CONTA : {"3.01"}, VL_CONTA : {<< "1", "0" >>}, ESCALA_MOEDA : {MIL}]
\* records with every kind of value text and scale marker; the rows of one
\* table are given accounts that differ, so that none is a duplicate
ScaleAccounts == << "3.01", "3.02", "3.03", "3.04", "3.05", "3.06" >>
DistinctAccounts(rows) ==
    [i \in 1..Len(rows) |-> [rows[i] EXCEPT !.CD_CONTA = ScaleAccounts[i]]]
ScaleRecords ==
    [CNPJ_CIA : {Cnpj1}, DENOM_CIA : {Name1}, CD_CVM : {Cvm1},
     DT_REFER : {Dec2023}, ORDEM_EXERC : {ULTIMO},
     CD_CONTA : {"3.01"},
     VL_CONTA : {<< "1", "2" >>, << "1", ",", "5" >>, << " ", "7", " " >>,
                 << "1", ".", "2", ",", "5" >>},
     ESCALA_MOEDA : {MIL, MilLower, UNIDADE, NullText}]
\* records of one company under several names and regulator codes, with
\* accounts inside and outside the catalog of the statement kind
PivotRecords ==
    {r \in [CNPJ_CIA : {Cnpj1}, DENOM_CIA : {Name1, Name2}, CD_CVM : {Cvm1, Cvm2},
            DT_REFER : {Dec2023, Dec2022}, ORDEM_EXERC : {ULTIMO},
            CD_CONTA : {"3.01", "3.03", "2.03"},
            VL_CONTA : {<< "1", "0" >>, << "-" >>}, ESCALA_MOEDA : {UNIDADE}] :
        ~(r.DENOM_CIA = Name2 /\ r.CD_CVM = Cvm2)}

\* the filings get_statement is queried on: two companies, reference dates
\* in December, June and February, and a date text that is no date
Petrobras == << "3", "3", ".", "0", "0", "0", ".", "1", "6", "7", "/",
                "0", "0", "0", "1", "-", "0", "1" >>
Weg       == << "8", "4", ".", "4", "2", "9", ".", "6", "9", "5", "/",
                "0", "0", "0", "1", "-", "1", "1" >>
Cvm9512   == << "0", "0", "9", "5", "1", "2" >>
Cvm5410   == << "5", "4", "1", "0" >>
Jun2023   == << 2023, 6, 30 >>
Feb2023   == << 2023, 2, 15 >>
StatementRecords ==
    [CNPJ_CIA : {Petrobras}, DENOM_CIA : {Name1}, CD_CVM : {Cvm9512},
     DT_REFER : {Dec2023, Jun2023, Feb2023, Feb30}, ORDEM_EXERC : {ULTIMO},
     CD_CONTA : {"3.01"}, VL_CONTA : {<< "1", "0" >>}, ESCALA_MOEDA : {UNIDADE}]
    \cup
    [CNPJ_CIA : {Weg}, DENOM_CIA : {Name2}, CD_CVM : {Cvm5410},
     DT_REFER : {Dec2023, Jun2023}, ORDEM_EXERC : {ULTIMO},
     CD_CONTA : {"3.01"}, VL_CONTA : {<< "1", "0" >>}, ESCALA_MOEDA : {UNIDADE}]
\* the stored tables process_all_statements makes of one raw income table
StoredOf(raw) ==
    ("DRE_raw" :> clean_dataframe(raw))
    @@ ("DRE" :> pivot_statement(clean_dataframe(raw), "DRE"))
StoredTables ==
    {StoredOf(Frame(RawColumns, DistinctAccounts(rows))) :
        rows \in Seqs(StatementRecords, MaxStatementRows)}
\* the index of a mapper that is not loaded, and of one that knows Petrobras
MapperIndexes ==
    {<< >>,
     (<< "3", "3", "0", "0", "0", "1", "6", "7", "0", "0", "0", "1", "0", "1" >>
        :> << "9", "5", "1", "2" >>)}
\* the calls: every combination of the four filters, and calls by ticker
FilterQueries ==
    [statement : {"DRE"}, pivoted : BOOLEAN, ticker : {Absent},
     cnpj : {Absent, Text(<< >>), Text(Petrobras),
             Text(<< "8", "4", "4", "2", "9", "6", "9", "5", "0", "0", "0", "1", "1", "1" >>)},
     cd_cvm : {Absent, Text(<< "9", "5", "1", "2" >>), Text(<< "0", "5", "4", "1", "0" >>),
               Text(<< "x" >>)},
     dt_refer : {Absent, Text(<< "2", "0", "2", "3", "-", "1", "2", "-", "3", "1" >>),
                 Text(<< "N", "a", "T" >>)},
     periodo : {Absent, Text(<< "a", "n", "u", "a", "l" >>),
                Text(<< "t", "r", "i", "m", "e", "s", "t", "r", "a", "l" >>),
                Text(<< "M", "e", "n", "s", "a", "l" >>)}]
TickerQueries ==
    [statement : {"DRE"}, pivoted : BOOLEAN,
     ticker : {Text(<< " ", "p", "e", "t", "r", "4" >>), Text(<< "W", "E", "G", "E", "3" >>),
               Text(<< "X", "X", "X", "X", "3" >>)},
     cnpj : {Absent}, cd_cvm : {Absent},
     dt_refer : {Absent, Text(<< "2", "0", "2", "3", "-", "1", "2", "-", "3", "1" >>)},
     periodo : {Absent, Text(<< "a", "n", "u", "a", "l" >>)}]

\* the statements compute_overview is tried on: each absent, empty, or
\* with rows of one company at successive year ends, with label columns
\* present or not and cells with or without a value
OverviewValues == {NaN, Fin(0), Fin(100)}
OverviewTable(labels, cells) ==
    [columns |-> IndexColumns \cup labels,
     rows |-> [i \in 1..Len(cells) |->
                [CNPJ_CIA |-> Petrobras, DENOM_CIA |-> Name1, CD_CVM |-> Cvm9512,
                 DT_REFER |-> Date(2021 + i, 12, 31), cells |-> cells[i]]]]
OverviewTables(labelSets, maxlen) ==
    {NoFrame, OverviewTable({}, << >>)} \cup
    UNION {{OverviewTable(labels, cells) :
                cells \in Seqs([labels -> OverviewValues], maxlen) \ {<< >>}} :
           labels \in labelSets}
IncomeTables == OverviewTables({{}, {"Receita Liquida"}, {"Receita Liquida", "EBIT"}},
                               MaxOverviewRows)
AnnualTables == {NoFrame, OverviewTable({}, << >>),
                 OverviewTable({"Receita Liquida", "EBIT"},
                     << [l \in {"Receita Liquida", "EBIT"} |-> Fin(100)] >>)}
AssetTables  == OverviewTables({{"Ativo Total"}}, 1)
LiabilityTables == OverviewTables({{"Patrimonio Liquido Consolidado"}}, 1)
CashTables   == OverviewTables({{"Depreciacao e Amortizacao"}}, 1)

\* statements of one company with named figures: the rows in the order the
\* pivot leaves them (by name, then code, then date)
CompanyTable(rows) ==
    [columns |-> IndexColumns \cup UNION {DOMAIN rows[i].cells : i \in 1..Len(rows)},
     rows |-> [i \in 1..Len(rows) |->
                [CNPJ_CIA |-> Petrobras, DENOM_CIA |-> rows[i].name, CD_CVM |-> Cvm9512,
                 DT_REFER |-> rows[i].date, cells |-> rows[i].cells]]]
IncomeOf(name, date, ebit, receita) ==
    [name |-> name, date |-> date,
     cells |-> ("EBIT" :> ebit) @@ ("Receita Liquida" :> receita)]
LiabilitiesOf(date, equity, debt) ==
    [name |-> Name1, date |-> date,
     cells |-> ("Patrimonio Liquido Consolidado" :> equity)
               @@ ("Emprestimos e Financiamentos LP" :> debt)]
AssetsOf(date, total) ==
    [name |-> Name1, date |-> date, cells |-> ("Ativo Total" :> total)]
OverviewCall(annual, bpa, bpp) ==
    [dre_df |-> NoFrame, bpa_df |-> bpa, bpp_df |-> bpp, dfc_df |-> NoFrame,
     dre_annual_df |-> annual]
\* calls on one annual income row, with every sign of EBIT, of equity and
\* of total assets, debt of 200 and no cash
ExampleFigures == {Fin(0), Fin(-50), Fin(300), Fin(1000)}
SignCalls ==
    {OverviewCall(CompanyTable(<< IncomeOf(Name1, Date(2023, 12, 31), ebit, Fin(1000)) >>),
                  CompanyTable(<< AssetsOf(Date(2023, 12, 31), total) >>),
                  CompanyTable(<< LiabilitiesOf(Date(2023, 12, 31), equity, Fin(200)) >>)) :
        ebit \in ExampleFigures, total \in {Fin(0), Fin(-50), Fin(1000)},
        equity \in ExampleFigures}

\* calls on the annual income rows of a company that changed its name: the
\* row of the later year stands first, under the name that sorts first
RenamedCalls ==
    {OverviewCall(CompanyTable(<< IncomeOf(Name1, Date(2023, 12, 31), ebit, Fin(1000)),
                                  IncomeOf(Name2, Date(2022, 12, 31), Fin(300), Fin(1000)) >>),
                  bpa, NoFrame) :
        ebit \in ExampleFigures,
        bpa \in {NoFrame, CompanyTable(<< AssetsOf(Date(2023, 12, 31), Fin(1000)) >>)}}

\* calls on two annual income rows and on balance sheets and cash flows
\* with several rows in a year: quarterly rows, and the rows of a company
\* renamed within the year, which stand last under the later name
YearRow(name, date, label, v) == [name |-> name, date |-> date, cells |-> (label :> v)]
AssetYearRows ==
    {YearRow(Name1, Date(2023, 3, 31), "Ativo Total", Fin(200)),
     YearRow(Name1, Date(2023, 12, 31), "Ativo Total", Fin(400)),
     YearRow(Name2, Date(2022, 12, 31), "Ativo Total", Fin(1000)),
     YearRow(Name2, Date(2023, 12, 31), "Ativo Total", Fin(500))}
\* the order pivot_statement leaves the rows of one company in
PivotOrdered(rows) ==
    \A i, j \in 1..Len(rows) : i < j =>
        \/ StrLess(rows[i].name, rows[j].name)
        \/ rows[i].name = rows[j].name /\ DateLess(rows[i].date, rows[j].date)
MaxYearRows == 3
AssetYearTables ==
    {CompanyTable(rows) : rows \in {r \in Seqs(AssetYearRows, MaxYearRows) :
                                       r # << >> /\ PivotOrdered(r)}}
CashFigures == {NaN, Fin(0), Fin(50)}
CashYearTables ==
    {NoFrame} \cup
    {CompanyTable(<< [name |-> Name1, date |-> Date(2023, 12, 31),
                      cells |-> ("Caixa Liquido Atividades Operacionais" :> fco)
                                @@ ("Aquisicao de Imobilizado" :> imob)
                                @@ ("Aquisicao de Intangivel" :> intang)] >>) :
        fco \in CashFigures, imob \in {NaN, Fin(-10)}, intang \in {NaN, Fin(-5)}}
YearIncome ==
    CompanyTable(<< [name |-> Name1, date |-> Date(2022, 12, 31),
                     cells |-> ("Lucro/Prejuizo Consolidado do Periodo" :> Fin(100))
                               @@ ("Receita Liquida" :> Fin(1000))],
                    [name |-> Name1, date |-> Date(2023, 12, 31),
                     cells |-> ("Lucro/Prejuizo Consolidado do Periodo" :> Fin(100))
                               @@ ("Receita Liquida" :> Fin(1000))] >>)
YearCalls ==
    {[dre_df |-> NoFrame, bpa_df |-> bpa, bpp_df |-> NoFrame, dfc_df |-> dfc,
      dre_annual_df |-> YearIncome] :
        bpa \in AssetYearTables, dfc \in CashYearTables}

\* the loads: the one the startup begins and the reloads after it; the
\* tables of load number gen hold figures of their own, and carry gen
Loads == 1..MaxLoads
Keys == << "DRE", "BPA", "BPP", "DFC" >>
KeyLabel == [DRE |-> "Receita Liquida", BPA |-> "Ativo Total",
             BPP |-> "Patrimonio Liquido Consolidado",
             DFC |-> "Depreciacao e Amortizacao"]
\* the income and cash-flow tables hold the year 2022; the balance sheets
\* hold it too, and the first quarter of 2023 after it
LoadedTable(key, gen) ==
    [gen |-> gen] @@
    (IF key \in {"BPA", "BPP"}
     THEN CompanyTable(<< [name |-> Name1, date |-> Date(2022, 12, 31),
                           cells |-> (KeyLabel[key] :> Fin(100 * gen))],
                          [name |-> Name1, date |-> Date(2023, 3, 31),
                           cells |-> (KeyLabel[key] :> Fin(100 * gen))] >>)
     ELSE OverviewTable({KeyLabel[key]}, << (KeyLabel[key] :> Fin(100 * gen)) >>))
\* what process_all_statements returns in load number gen
ProcessedTables(gen) == [key \in {Keys[i] : i \in 1..Len(Keys)} |-> LoadedTable(key, gen)]
\* the index the mapper builds from the register of companies
CadIndex ==
    (<< "3", "3", "0", "0", "0", "1", "6", "7", "0", "0", "0", "1", "0", "1" >>
        :> << "9", "5", "1", "2" >>)

\* the universe the screener runs on: the index knows Petrobras under a
\* code that is a number or under one that is not, and Weg or not; the
\* stored tables hold annual and quarterly rows of both companies
MaxScreenerCalls == 2
PetrobrasCnpj == << "3", "3", "0", "0", "0", "1", "6", "7", "0", "0", "0", "1", "0", "1" >>
WegCnpj == << "8", "4", "4", "2", "9", "6", "9", "5", "0", "0", "0", "1", "1", "1" >>
ScreenerIndexes ==
    {p @@ w : p \in {<< >>, PetrobrasCnpj :> << "9", "5", "1", "2" >>,
                     PetrobrasCnpj :> << "x" >>},
              w \in {<< >>, WegCnpj :> << "5", "4", "1", "0" >>}}
ScreenerRow(cnpj, name, cvm, date, cells) ==
    [CNPJ_CIA |-> cnpj, DENOM_CIA |-> name, CD_CVM |-> cvm,
     DT_REFER |-> ToDatetime(date), cells |-> cells]
ScreenerFigures == {NaN, Fin(0), Fin(-50), Fin(100)}
IncomeLabels == {"Receita Liquida", "EBIT", "Lucro/Prejuizo Consolidado do Periodo"}
ScreenerIncome(v, weg) ==
    [columns |-> IndexColumns \cup IncomeLabels,
     rows |-> << ScreenerRow(Petrobras, Name1, Cvm9512, Dec2023, [l \in IncomeLabels |-> v]),
                 ScreenerRow(Petrobras, Name1, Cvm9512, Jun2023,
                             [l \in IncomeLabels |-> Fin(100)]) >>
              \o (IF weg THEN << ScreenerRow(Weg, Name2, Cvm5410, Dec2023,
                                             [l \in IncomeLabels |-> Fin(100)]) >>
                  ELSE << >>)]
ScreenerLiabilities(v) ==
    [columns |-> IndexColumns \cup {"Patrimonio Liquido Consolidado",
                                    "Emprestimos e Financiamentos LP"},
     rows |-> << ScreenerRow(Petrobras, Name1, Cvm9512, Dec2023,
                    ("Patrimonio Liquido Consolidado" :> v)
                    @@ ("Emprestimos e Financiamentos LP" :> Fin(100))),
                 ScreenerRow(Weg, Name2, Cvm5410, Dec2023,
                    ("Patrimonio Liquido Consolidado" :> Fin(100))
                    @@ ("Emprestimos e Financiamentos LP" :> Fin(0))) >>]
ScreenerCash ==
    [columns |-> IndexColumns \cup {"Caixa Liquido Atividades Operacionais"},
     rows |-> << ScreenerRow(Petrobras, Name1, Cvm9512, Dec2023,
                    ("Caixa Liquido Atividades Operacionais" :> Fin(100))) >>]
ScreenerTables ==
    {("DRE" :> dre) @@ ("BPA" :> EmptyFrame) @@ ("BPP" :> ScreenerLiabilities(Fin(100)))
        @@ ("DFC" :> ScreenerCash) : dre \in {EmptyFrame}} \cup
    {("DRE" :> ScreenerIncome(u, weg)) @@ ("BPA" :> EmptyFrame)
        @@ ("BPP" :> ScreenerLiabilities(u)) @@ ("DFC" :> ScreenerCash) :
        u \in ScreenerFigures, weg \in BOOLEAN}
\* the companies compute_indicadores can fail on
ScreenerFaults == {{}, {<< "W", "E", "G", "E", "3" >>}}
\* what the market data of one ticker can hold, and the batches
MarketData ==
    {<< >>,
     ("price" :> Fin(10)) @@ ("shares" :> Fin(5)),
     ("market_cap" :> Fin(200)) @@ ("enterprise_value" :> Fin(300)),
     ("price" :> Fin(10)) @@ ("market_cap" :> Fin(0)) @@ ("enterprise_value" :> None)}
\* what the market answers: a batch by ticker, or a failure of the fetch
FetchFailed == [failed |-> TRUE, batch |-> << >>]
Markets ==
    {FetchFailed} \cup
    {[failed |-> FALSE, batch |-> b] :
        b \in UNION {[S -> MarketData] : S \in SUBSET {TICKER_ORDER[i] : i \in 1..Len(TICKER_ORDER)}}}
\* the seconds that pass between two calls, around the cache's lifetime
CACHE_TTL == 86400
TimeSteps == {1, CACHE_TTL - 1, CACHE_TTL}

\* the raw cash-flow tables of one company: latest-exercise records of two
\* reference dates and of a date text that is no date, under two accounts;
\* the indirect-method figures are 10 and the direct-method figures 20, so
\* that a record tells the table it came from
MaxCashRows == 2
CashRecords(value) ==
    [CNPJ_CIA : {Cnpj1}, DENOM_CIA : {Name1}, CD_CVM : {Cvm1},
     DT_REFER : {Dec2023, Dec2022, Feb30}, ORDEM_EXERC : {ULTIMO},
     CD_CONTA : {"6.01", "6.02"}, VL_CONTA : {value}, ESCALA_MOEDA : {UNIDADE}]
\* the downloader stores a key only for a table that has rows
RawCashTables(value) ==
    {Frame(RawColumns, rows) : rows \in Seqs(CashRecords(value), MaxCashRows) \ {<< >>}}
IndirectTables == RawCashTables(<< "1", "0" >>)
DirectTables   == RawCashTables(<< "2", "0" >>)
RawCashData ==
    {("DFC_MI" :> mi) @@ ("DFC_MD" :> md) : mi \in IndirectTables, md \in DirectTables}
    \cup {("DFC_MI" :> mi) : mi \in IndirectTables}
    \cup {("DFC_MD" :> md) : md \in DirectTables}
    \cup {NoTables}

\* the tables that cross the boundary: rows of one company whose cells
\* hold a figure, no value (NaN) or an infinite value
MaxTransportRows == 2
TransportLabels == {"Receita Liquida", "EBIT"}
TransportValues == {NaN, PInf, Fin(10)}
TransportFrames ==
    {NoFrame} \cup
    {OverviewTable(TransportLabels, cells) :
        cells \in Seqs([TransportLabels -> TransportValues], MaxTransportRows)}
\* the default page size, and the pages asked for
DEFAULT_LIMIT == 1000
Limits == {1, DEFAULT_LIMIT}
Offsets == {0, 1}
\* the company asked for: by regulator code or by ticker
Identities ==
    {[ticker |-> Absent, cnpj |-> Absent, cd_cvm |-> Text(<< "9", "5", "1", "2" >>)],
     [ticker |-> Absent, cnpj |-> Absent, cd_cvm |-> Text(<< "5", "4", "1", "0" >>)],
     [ticker |-> Text(<< "P", "E", "T", "R", "4" >>), cnpj |-> Absent, cd_cvm |-> Absent],
     [ticker |-> Text(<< "W", "E", "G", "E", "3" >>), cnpj |-> Absent, cd_cvm |-> Absent],
     [ticker |-> Text(<< "X", "X", "X", "X", "3" >>), cnpj |-> Absent, cd_cvm |-> Absent]}

(***************************************************************************)
(* State                                                                   *)
(***************************************************************************)
VARIABLES
    div_a, div_b,   \* the arguments of one guarded division
    div_r,          \* its result
    div_op,         \* "args" before the call, then the function called
    cagr_values,    \* the series handed to _cagr
    cagr_years,     \* the horizon handed to _cagr
    cagr_start,     \* the start point _cagr settled on (NoPoint: none)
    cagr_result,    \* what _cagr returned
    cagr_pc,        \* "args" before the call, "done" after it
    raw_df,         \* the raw long-format table of one statement kind
    statement_type, \* the statement kind it is pivoted as
    cleaned_df,     \* clean_dataframe(raw_df)
    pivoted_df,     \* pivot_statement(cleaned_df, statement_type)
    parser_pc,      \* "raw", "cleaned", "pivoted"
    data,           \* DataService.data: the stored tables by key
    _cnpj_to_cvm,   \* the mapper's index tax id -> regulator code
    query,          \* the arguments of one get_statement call
    stmt_result,    \* what the call returned, or that it raised
    stmt_pc,        \* "args" before the call, "done" after it
    overview_args,  \* the five statements handed to compute_overview
    overview_result, \* the bundle it returned, or that it raised
    overview_pc,    \* "args" before the call, "done" after it
    _loading,       \* api._loading
    _load_error,    \* api._load_error ("" for None)
    loaded,         \* DataService.loaded
    last_update,    \* DataService.last_update: the load that set it, 0 for None
    data_id,        \* which dict object DataService.data refers to (0: the first)
    retired,        \* the replaced dict objects a request still iterates
    loader,         \* per load thread: where it is, and the key it enriches next
    overview_req,   \* one GET /overview: where it is and the tables it read
    status_req,     \* one GET /status: where it is and the tables it read
    scr_faults,     \* the tickers compute_indicadores raises for
    market,         \* what the market data source answers
    scr_pc,         \* where one GET /screener is
    scr_calls,      \* the calls of GET /screener so far
    now,            \* time.time(), in seconds
    companies,      \* get_screener: the companies of the loop
    scr_i,          \* the company the loop is at
    scr_frames,     \* the statements fetched for it (<< >> before the fetch)
    results,        \* the rows so far
    errors,         \* the tickers of the failed companies so far
    market_batch,   \* the batch of market data fetched
    response,       \* the response of the call
    _screener_cache, \* api._screener_cache
    tr_df,          \* the table handed to the transport layer
    tr_call,        \* the function that serialised it, and its arguments
    tr_out,         \* the page or the records it produced
    tr_pc,          \* "args" before the call, "done" after it
    merge_raw,      \* raw_data: the raw cash-flow tables by key
    merge_dfc,      \* dfc_df: the combined cash-flow table (NoTable for None)
    merge_result,   \* the cash-flow keys of the result dict
    merge_pc        \* "raw", "combined", "stored"

ratioVars  == <<div_a, div_b, div_r, div_op>>
growthVars == <<cagr_values, cagr_years, cagr_start, cagr_result, cagr_pc>>
parserVars == <<raw_df, statement_type, cleaned_df, pivoted_df, parser_pc>>
statementVars == <<data, _cnpj_to_cvm, query, stmt_result, stmt_pc>>
overviewVars == <<overview_args, overview_result, overview_pc>>
loadVars == <<_loading, _load_error, loaded, last_update, data_id, retired,
              loader, overview_req, status_req>>
mergeVars == <<merge_raw, merge_dfc, merge_result, merge_pc>>
screenerVars == <<scr_faults, market, scr_pc, scr_calls, now, companies, scr_i, scr_frames, results,
                  errors, market_batch, response, _screener_cache>>
\* the parts added to the service's single calls
transportVars == <<tr_df, tr_call, tr_out, tr_pc>>
extraVars == <<screenerVars, transportVars, mergeVars>>
vars == <<ratioVars, growthVars, parserVars, statementVars, overviewVars, loadVars,
          extraVars>>

\* what a step of one part leaves alone
notRatio     == <<growthVars, parserVars, statementVars, overviewVars, loadVars, extraVars>>
notGrowth    == <<ratioVars, parserVars, statementVars, overviewVars, loadVars, extraVars>>
notParser    == <<ratioVars, growthVars, statementVars, overviewVars, loadVars, extraVars>>
notStatement == <<ratioVars, growthVars, parserVars, overviewVars, loadVars, extraVars>>
notOverview  == <<ratioVars, growthVars, parserVars, statementVars, loadVars, extraVars>>
\* a step of the service leaves the single calls alone
notLoad      == <<ratioVars, growthVars, parserVars, overviewVars,
                 query, stmt_result, stmt_pc, extraVars>>
\* a step of the screener reads the service and leaves it as it is
notScreener  == <<ratioVars, growthVars, parserVars, statementVars, overviewVars,
                 loadVars, transportVars, mergeVars>>
notTransport == <<ratioVars, growthVars, parserVars, statementVars, overviewVars,
                 loadVars, screenerVars, mergeVars>>
notMerge     == <<ratioVars, growthVars, parserVars, statementVars, overviewVars,
                 loadVars, screenerVars, transportVars>>

RatioIdle  == div_a = None /\ div_b = None /\ div_r = None /\ div_op = "off"
GrowthIdle ==
    /\ cagr_values = << >> /\ cagr_years = 0 /\ cagr_start = NoPoint
    /\ cagr_result = NoGrowth /\ cagr_pc = "off"
ParserIdle ==
    /\ raw_df = EmptyFrame /\ statement_type = "" /\ cleaned_df = EmptyFrame
    /\ pivoted_df = EmptyFrame /\ parser_pc = "off"
StatementIdle ==
    /\ data = << >> /\ _cnpj_to_cvm = << >> /\ query = << >>
    /\ stmt_result = Returned(EmptyFrame) /\ stmt_pc = "off"
OverviewIdle ==
    /\ overview_args = << >> /\ overview_result = OverviewReturned(EmptyResult)
    /\ overview_pc = "off"
IdleRequest == [pc |-> "idle", ref |-> 0, seen |-> << >>, status |-> 0, body |-> << >>]
LoadIdle ==
    /\ _loading = FALSE /\ _load_error = "" /\ loaded = FALSE /\ last_update = 0
    /\ data_id = 0 /\ retired = << >>
    /\ loader = [t \in Loads |-> [pc |-> "idle", i |-> 0]]
    /\ overview_req = IdleRequest /\ status_req = IdleRequest

NoResponse == [data |-> << >>, total |-> 0, errors |-> 0]
NoCache == [set |-> FALSE, data |-> NoResponse, ts |-> 0]
ScreenerIdle ==
    /\ scr_faults = {} /\ market = FetchFailed /\ scr_pc = "off" /\ scr_calls = 0
    /\ now = 0 /\ companies = << >> /\ scr_i = 0 /\ scr_frames = << >>
    /\ results = << >> /\ errors = << >>
    /\ market_batch = << >> /\ response = NoResponse /\ _screener_cache = NoCache
NoCall == [fn |-> "", limit |-> 0, offset |-> 0, who |-> << >>]
TransportIdle ==
    tr_df = EmptyFrame /\ tr_call = NoCall /\ tr_out = << >> /\ tr_pc = "off"
MergeIdle ==
    merge_raw = NoTables /\ merge_dfc = NoTable /\ merge_result = NoTables /\ merge_pc = "off"
ExtraIdle == ScreenerIdle /\ TransportIdle /\ MergeIdle

(***************************************************************************)
(* SpecRatio: one call of _safe_div or _safe_pct on any pair of arguments  *)
(***************************************************************************)
RatioInit ==
    /\ div_a \in Numbers
    /\ div_b \in Numbers
    /\ div_r = None
    /\ div_op = "args"
    /\ GrowthIdle /\ ParserIdle /\ StatementIdle /\ OverviewIdle /\ LoadIdle /\ ExtraIdle

SafeDivCall ==
    /\ div_op = "args"
    /\ div_r' = _safe_div(div_a, div_b)
    /\ div_op' = "_safe_div"
    /\ UNCHANGED <<div_a, div_b, notRatio>>

SafePctCall ==
    /\ div_op = "args"
    /\ div_r' = _safe_pct(div_a, div_b)
    /\ div_op' = "_safe_pct"
    /\ UNCHANGED <<div_a, div_b, notRatio>>

RatioNext == SafeDivCall \/ SafePctCall

SpecRatio == RatioInit /\ [][RatioNext]_vars

\* C2: every ratio of the guarded division is None or a finite number, and
\* it is None whenever the denominator is zero, absent or not finite.
C2_RatioNoneOrFinite ==
    div_op \in {"_safe_div", "_safe_pct"} =>
        /\ (IsNone(div_r) \/ IsFin(div_r))
        /\ (~IsFin(div_b) \/ EqZero(div_b)) => IsNone(div_r)

(***************************************************************************)
(* SpecGrowth: one call of _cagr on any series and horizon                 *)
(***************************************************************************)
GrowthInit ==
    /\ cagr_values \in AllSeries
    /\ cagr_years \in Horizons
    /\ cagr_start = NoPoint
    /\ cagr_result = NoGrowth
    /\ cagr_pc = "args"
    /\ RatioIdle /\ ParserIdle /\ StatementIdle /\ OverviewIdle /\ LoadIdle /\ ExtraIdle

CagrCall ==
    /\ cagr_pc = "args"
    /\ cagr_start' = IF _cagr_early(cagr_values) THEN NoPoint
                     ELSE _cagr_start(cagr_values, cagr_years)
    /\ cagr_result' = _cagr(cagr_values, cagr_years)
    /\ cagr_pc' = "done"
    /\ UNCHANGED <<cagr_values, cagr_years, notGrowth>>

GrowthNext == CagrCall

SpecGrowth == GrowthInit /\ [][GrowthNext]_vars

CagrEnd == cagr_values[Len(cagr_values)]

\* the years of the series never decrease
YearAscending(values) ==
    \A i \in 1..(Len(values) - 1) : values[i].y <= values[i + 1].y

\* C6: _cagr returns a number only from a start point of another year than
\* the end point with both values strictly positive (so the exponent 1/n
\* has n > 0 and the ratio under the root is positive); it returns None for
\* fewer than two points, a zero or absent end value, coinciding years and a
\* non-positive start or end value.
C6_CagrDefinedOnlyForPositive ==
    cagr_pc = "done" =>
        /\ cagr_result.k = "cagr" =>
              /\ Len(cagr_values) >= 2
              /\ GtZero(CagrEnd.v) /\ cagr_result.e = CagrEnd.v
              /\ \E i \in 1..Len(cagr_values) :
                    /\ cagr_values[i].y # CagrEnd.y
                    /\ GtZero(cagr_values[i].v)
                    /\ cagr_result.s = cagr_values[i].v
                    /\ cagr_result.n = CagrEnd.y - cagr_values[i].y
              /\ cagr_result.n > 0
        /\ Len(cagr_values) < 2 => cagr_result = NoGrowth
        /\ (Len(cagr_values) >= 2 /\ ~GtZero(CagrEnd.v)) => cagr_result = NoGrowth
        /\ (Len(cagr_values) >= 2 /\ NonZero(CagrEnd.v)
              /\ (cagr_start = NoPoint \/ cagr_start.y = CagrEnd.y
                    \/ LeZero(cagr_start.v))) => cagr_result = NoGrowth
        /\ cagr_values = << [y |-> 2019, v |-> Fin(-50)], [y |-> 2022, v |-> Fin(1000)] >>
              => cagr_result = NoGrowth

\* a sign change between start and end: the call returned None
C6_Witness ==
    /\ cagr_pc = "done"
    /\ cagr_values = << [y |-> 2019, v |-> Fin(-50)], [y |-> 2022, v |-> Fin(1000)] >>
    /\ cagr_years = 3
    /\ cagr_start = [y |-> 2019, v |-> Fin(-50)]
    /\ cagr_result = NoGrowth

\* the points of a series at or before the target year of the call
AtOrBeforeTarget(values, years) ==
    {i \in 1..Len(values) : values[i].y <= values[Len(values)].y - years}

SetMax(S) == CHOOSE x \in S : \A z \in S : z <= x
SetMin(S) == CHOOSE x \in S : \A z \in S : x <= z

\* C7 as stated: on a year-ascending series the start point is the last point
\* at or before (end year - h), whatever its value, and the earliest non-zero
\* point only when no point is at or before that year.
C7_StartWhateverValue ==
    (cagr_pc = "done" /\ YearAscending(cagr_values) /\ ~_cagr_early(cagr_values)) =>
        LET cands == AtOrBeforeTarget(cagr_values, cagr_years)
            nz    == {i \in 1..Len(cagr_values) : NonZero(cagr_values[i].v)}
        IN  /\ cands # {} => cagr_start = cagr_values[SetMax(cands)]
            /\ cands = {} => cagr_start = cagr_values[SetMin(nz)]

\* C7 amended: on a year-ascending series the start point is the last point
\* with a non-zero value at or before (end year - h); the earliest non-zero
\* point is used when no non-zero point is at or before that year.  The
\* exponent uses the implied years (end year - start year), not h.
C7_StartLastNonZero ==
    (cagr_pc = "done" /\ YearAscending(cagr_values) /\ ~_cagr_early(cagr_values)) =>
        LET nz    == {i \in 1..Len(cagr_values) : NonZero(cagr_values[i].v)}
            cands == AtOrBeforeTarget(cagr_values, cagr_years) \cap nz
        IN  /\ cands # {} => cagr_start = cagr_values[SetMax(cands)]
            /\ cands = {} => cagr_start = cagr_values[SetMin(nz)]
            /\ cagr_result.k = "cagr" =>
                  /\ cagr_result.n = CagrEnd.y - cagr_start.y
                  /\ cagr_result.s = cagr_start.v
                  /\ cagr_result.e = CagrEnd.v

\* a zero point at the target year is passed over for the non-zero point
\* before it, and the rate is taken over the 5 implied years, not over h = 3
C7_Witness ==
    /\ cagr_pc = "done"
    /\ cagr_values = << [y |-> 2017, v |-> Fin(1000)], [y |-> 2019, v |-> Fin(0)],
                        [y |-> 2022, v |-> Fin(1331)] >>
    /\ cagr_years = 3
    /\ cagr_start = [y |-> 2017, v |-> Fin(1000)]
    /\ cagr_result = Growth(Fin(1331), Fin(1000), 5)

(***************************************************************************)
(* SpecParser: one raw table cleaned, then pivoted                         *)
(***************************************************************************)
ParserInit ==
    /\ \/ /\ raw_df \in {Frame(RawColumns, rows) : rows \in Seqs(DedupRecords, MaxDedupRows)}
          /\ statement_type = "DRE"
       \/ /\ raw_df \in {Frame(columns, DistinctAccounts(rows)) :
                            columns \in {RawColumns, RawColumns \ {"ESCALA_MOEDA"}},
                            rows \in Seqs(ScaleRecords, MaxScaleRows)}
          /\ statement_type = "DRE"
       \/ /\ raw_df \in {Frame(RawColumns, rows) : rows \in Seqs(PivotRecords, MaxPivotRows)}
          /\ statement_type \in {"DRE", "BPP"}
    /\ cleaned_df = EmptyFrame
    /\ pivoted_df = EmptyFrame
    /\ parser_pc = "raw"
    /\ RatioIdle /\ GrowthIdle /\ StatementIdle /\ OverviewIdle /\ LoadIdle /\ ExtraIdle

CleanStep ==
    /\ parser_pc = "raw"
    /\ cleaned_df' = clean_dataframe(raw_df)
    /\ parser_pc' = "cleaned"
    /\ UNCHANGED <<raw_df, statement_type, pivoted_df, notParser>>

PivotStep ==
    /\ parser_pc = "cleaned"
    /\ pivoted_df' = pivot_statement(cleaned_df, statement_type)
    /\ parser_pc' = "pivoted"
    /\ UNCHANGED <<raw_df, statement_type, cleaned_df, notParser>>

ParserNext == CleanStep \/ PivotStep

SpecParser == ParserInit /\ [][ParserNext]_vars

Cleaned == parser_pc \in {"cleaned", "pivoted"}
RawRows == raw_df.rows
CleanRows == cleaned_df.rows

\* the key of a raw record as written: tax id, reference date text, account
RawKey(row) == << row.CNPJ_CIA, row.DT_REFER, row.CD_CONTA >>
\* the key of a raw record once its reference date is parsed (every text
\* that is no date parses to the same missing date)
ParsedKey(row) == << row.CNPJ_CIA, ToDatetime(row.DT_REFER), row.CD_CONTA >>
CleanKey(row) == << row.CNPJ_CIA, row.DT_REFER, row.CD_CONTA >>

\* C3 as stated: two raw records that share (CNPJ_CIA, DT_REFER, CD_CONTA),
\* whatever their exercise-order flags, leave exactly one cleaned record with
\* that key, the later of the two in input order.
C3_DedupKeepsLaterWhateverFlag ==
    Cleaned =>
        \A i, j \in 1..Len(RawRows) :
            (i < j /\ RawKey(RawRows[i]) = RawKey(RawRows[j])) =>
                LET same == {m \in 1..Len(RawRows) : RawKey(RawRows[m]) = RawKey(RawRows[i])}
                    out  == {m \in 1..Len(CleanRows) :
                                CleanKey(CleanRows[m]) = ParsedKey(RawRows[i])}
                IN  /\ Cardinality(out) = 1
                    /\ \A m \in out : CleanRows[m].idx = SetMax(same)

\* C3 amended: of the raw records that share (CNPJ_CIA, parsed DT_REFER,
\* CD_CONTA), the cleaned table keeps at most one: the last in input order of
\* those whose exercise-order flag is the latest-exercise flag after trimming
\* and upper-casing, and none when no record of the key carries that flag.
C3_DedupKeepsLastLatest ==
    Cleaned =>
        \A i \in 1..Len(RawRows) :
            LET same   == {m \in 1..Len(RawRows) :
                              ParsedKey(RawRows[m]) = ParsedKey(RawRows[i])}
                latest == {m \in same :
                              StrUpper(StrStrip(RawRows[m].ORDEM_EXERC)) = ULTIMO}
                out    == {m \in 1..Len(CleanRows) :
                              CleanKey(CleanRows[m]) = ParsedKey(RawRows[i])}
            IN  /\ latest = {} => out = {}
                /\ latest # {} =>
                      /\ Cardinality(out) = 1
                      /\ \A m \in out : CleanRows[m].idx = SetMax(latest)

\* three records of one key: the last one is a restated figure, so the
\* second one is the record kept
C3_Witness ==
    /\ Cleaned
    /\ Len(RawRows) = 3
    /\ \A i \in 1..3 : RawKey(RawRows[i]) = << Cnpj1, Dec2023, "3.01" >>
    /\ RawRows[1].ORDEM_EXERC = ULTIMO
    /\ RawRows[2].ORDEM_EXERC = UltimoLower
    /\ RawRows[3].ORDEM_EXERC = PENULTIMO
    /\ Len(CleanRows) = 1
    /\ CleanRows[1].idx = 2

\* C4: the pivoted table has at most one row per (CNPJ_CIA, DT_REFER).
C4_OneRowPerCompanyDate ==
    parser_pc = "pivoted" =>
        \A i, j \in 1..Len(pivoted_df.rows) :
            (/\ pivoted_df.rows[i].CNPJ_CIA = pivoted_df.rows[j].CNPJ_CIA
             /\ pivoted_df.rows[i].DT_REFER = pivoted_df.rows[j].DT_REFER) => i = j

\* C10: the cleaned value of every row is the parsed raw value times 1000
\* when the scale marker, trimmed and upper-cased, is MIL, and the parsed raw
\* value itself for any other marker, a missing marker or no marker column.
C10_ScaleThousandOnce ==
    Cleaned =>
        \A m \in 1..Len(CleanRows) :
            LET raw    == RawRows[CleanRows[m].idx]
                parsed == ParseValue(raw.VL_CONTA)
                marked == /\ "ESCALA_MOEDA" \in raw_df.columns
                          /\ raw.ESCALA_MOEDA # NullText
                          /\ StrUpper(StrStrip(raw.ESCALA_MOEDA)) = MIL
            IN  CleanRows[m].VL_CONTA = IF marked THEN FMul(parsed, Fin(1000)) ELSE parsed

\* a value of 1,5 marked " mil " is cleaned to 1500, beside a value of 12
\* in units that stays 12
C10_Witness ==
    /\ Cleaned
    /\ "ESCALA_MOEDA" \in raw_df.columns
    /\ Len(CleanRows) = 2
    /\ RawRows[1].VL_CONTA = << "1", ",", "5" >> /\ RawRows[1].ESCALA_MOEDA = MilLower
    /\ CleanRows[1].VL_CONTA = Fin(1500)
    /\ RawRows[2].VL_CONTA = << "1", "2" >> /\ RawRows[2].ESCALA_MOEDA = UNIDADE
    /\ CleanRows[2].VL_CONTA = Fin(12)

\* the labels of the catalog of the kind pivoted
CatalogLabels ==
    {AccountsOf(statement_type)[code] : code \in DOMAIN AccountsOf(statement_type)}
\* every column is an identity column or a label of the catalog
CatalogColumns == pivoted_df.columns \subseteq IndexColumns \cup CatalogLabels
\* every value of the pivoted table is the value of a cleaned row of the
\* same company and date whose account the catalog gives that label
CatalogValues ==
    \A i \in 1..Len(pivoted_df.rows) : \A label \in DOMAIN pivoted_df.rows[i].cells :
        IsNaN(pivoted_df.rows[i].cells[label]) \/
        \E m \in 1..Len(CleanRows) :
            /\ CleanRows[m].CD_CONTA \in DOMAIN AccountsOf(statement_type)
            /\ AccountsOf(statement_type)[CleanRows[m].CD_CONTA] = label
            /\ GroupKey(CleanRows[m]).CNPJ_CIA = pivoted_df.rows[i].CNPJ_CIA
            /\ GroupKey(CleanRows[m]).DT_REFER = pivoted_df.rows[i].DT_REFER
            /\ CleanRows[m].VL_CONTA = pivoted_df.rows[i].cells[label]

\* C24 as stated: every column of every pivot_statement result is an
\* identity column or a label of the catalog, and no row outside the
\* catalog contributes a value
C24_CatalogColumnsAlways ==
    parser_pc = "pivoted" => (CatalogColumns /\ CatalogValues)

\* C24, amended: that holds of the result for a cleaned table with rows; a
\* cleaned table without rows is returned as it is, with its raw columns
C24_CatalogColumns ==
    parser_pc = "pivoted" =>
        IF CleanRows = << >> THEN pivoted_df = cleaned_df
        ELSE CatalogColumns /\ CatalogValues

\* a table with one row in the catalog and one outside it has been pivoted
C24_Witness ==
    /\ parser_pc = "pivoted" /\ statement_type = "BPP"
    /\ Len(pivoted_df.rows) = 1
    /\ \E m, n \in 1..Len(CleanRows) :
          /\ CleanRows[m].CD_CONTA \in DOMAIN AccountsOf(statement_type)
          /\ CleanRows[n].CD_CONTA \notin DOMAIN AccountsOf(statement_type)
          /\ ~IsNaN(CleanRows[n].VL_CONTA)

(***************************************************************************)
(* SpecStatement: one get_statement call on the stored tables of one load  *)
(***************************************************************************)
StatementInit ==
    /\ data \in StoredTables
    /\ \/ query \in FilterQueries /\ _cnpj_to_cvm \in MapperIndexes \ {<< >>}
       \/ query \in TickerQueries /\ _cnpj_to_cvm \in MapperIndexes
    /\ stmt_result = Returned(EmptyFrame)
    /\ stmt_pc = "args"
    /\ RatioIdle /\ GrowthIdle /\ ParserIdle /\ OverviewIdle /\ LoadIdle /\ ExtraIdle

GetStatementCall ==
    /\ stmt_pc = "args"
    /\ stmt_result' = get_statement(data, _cnpj_to_cvm, query)
    /\ stmt_pc' = "done"
    /\ UNCHANGED <<data, _cnpj_to_cvm, query, notStatement>>

StatementNext == GetStatementCall

SpecStatement == StatementInit /\ [][StatementNext]_vars

\* the stored table a call reads, and the table it returned
QueriedRows  == StoredTable(data, query).rows
ReturnedRows == stmt_result.df.rows
StatementReturned == stmt_pc = "done" /\ ~stmt_result.raised
Anual      == << "a", "n", "u", "a", "l" >>
Trimestral == << "t", "r", "i", "m", "e", "s", "t", "r", "a", "l" >>
OnlyPeriodo ==
    /\ ~Supplied(query.cnpj) /\ ~Supplied(query.cd_cvm)
    /\ ~Supplied(query.ticker) /\ ~Supplied(query.dt_refer)

\* C8: with periodo "anual" the call returns exactly the stored rows whose
\* reference month is 12, with "trimestral" exactly those whose month is 3,
\* 6 or 9 (a row of another month or without a date is in neither, so no
\* row is in both), and with no periodo every row.
C8_PeriodClassification ==
    (StatementReturned /\ OnlyPeriodo) =>
        /\ (query.periodo = Text(Anual)) =>
              ReturnedRows = SelectIdx(QueriedRows,
                  {i \in 1..Len(QueriedRows) :
                      ~QueriedRows[i].DT_REFER.nat /\ QueriedRows[i].DT_REFER.m = 12})
        /\ (query.periodo = Text(Trimestral)) =>
              ReturnedRows = SelectIdx(QueriedRows,
                  {i \in 1..Len(QueriedRows) :
                      /\ ~QueriedRows[i].DT_REFER.nat
                      /\ QueriedRows[i].DT_REFER.m \in {3, 6, 9}
                      /\ QueriedRows[i].DT_REFER.m # 12})
        /\ ~Supplied(query.periodo) => ReturnedRows = QueriedRows

\* an annual query on a raw table of a December row and a row without a
\* date returned the December row alone
C8_Witness ==
    /\ StatementReturned /\ OnlyPeriodo
    /\ query.periodo = Text(Anual)
    /\ Len(QueriedRows) = 2
    /\ \E i \in 1..2 : QueriedRows[i].DT_REFER.nat
    /\ Len(ReturnedRows) = 1
    /\ ReturnedRows[1].DT_REFER = Date(2023, 12, 31)

\* what it is for one stored row to satisfy one supplied filter
SatisfiesCnpj(row)   == StripPunctuation(row.CNPJ_CIA) = StripPunctuation(query.cnpj.s)
SatisfiesCvm(row)    == CvmCellText(row.CD_CVM).s = IntText(IntOfText(query.cd_cvm.s).v)
SatisfiesDate(row)   == DateText(row.DT_REFER) = query.dt_refer.s
SatisfiesPeriod(row) ==
    /\ StrLower(query.periodo.s) = Anual => ~row.DT_REFER.nat /\ row.DT_REFER.m = 12
    /\ StrLower(query.periodo.s) = Trimestral =>
           ~row.DT_REFER.nat /\ row.DT_REFER.m \in {3, 6, 9}
SatisfiesAll(row) ==
    /\ Supplied(query.cnpj) => SatisfiesCnpj(row)
    /\ Supplied(query.cd_cvm) => SatisfiesCvm(row)
    /\ Supplied(query.dt_refer) => SatisfiesDate(row)
    /\ Supplied(query.periodo) => SatisfiesPeriod(row)

\* C9: a call with any of the filters cnpj, cd_cvm, dt_refer and periodo
\* returns exactly the rows of the stored table that satisfy every filter
\* supplied, and on an empty stored table it returns the empty table
\* without raising, whatever the filter values.
C9_FiltersIntersect ==
    (stmt_pc = "done" /\ ~Supplied(query.ticker)) =>
        /\ QueriedRows = << >> => stmt_result = Returned(StoredTable(data, query))
        /\ ~stmt_result.raised =>
              ReturnedRows = SelectIdx(QueriedRows,
                  {i \in 1..Len(QueriedRows) : SatisfiesAll(QueriedRows[i])})

\* a call with a tax id and a period on a table of two rows returned no
\* row, where each of the two filters alone keeps the row the other drops
C9_Witness ==
    /\ StatementReturned /\ ~Supplied(query.ticker)
    /\ Supplied(query.cnpj) /\ Supplied(query.periodo)
    /\ Len(QueriedRows) = 2 /\ ReturnedRows = << >>
    /\ \E i \in 1..2 : SatisfiesCnpj(QueriedRows[i]) /\ ~SatisfiesPeriod(QueriedRows[i])
    /\ \E i \in 1..2 : ~SatisfiesCnpj(QueriedRows[i]) /\ SatisfiesPeriod(QueriedRows[i])

(***************************************************************************)
(* SpecOverview: one compute_overview call on any five statements          *)
(***************************************************************************)
OverviewInit ==
    /\ overview_args \in [dre_df : IncomeTables, bpa_df : AssetTables,
                          bpp_df : LiabilityTables, dfc_df : CashTables,
                          dre_annual_df : AnnualTables]
                         \cup SignCalls \cup RenamedCalls \cup YearCalls
    /\ overview_result = OverviewReturned(EmptyResult)
    /\ overview_pc = "args"
    /\ RatioIdle /\ GrowthIdle /\ ParserIdle /\ StatementIdle /\ LoadIdle /\ ExtraIdle

ComputeOverviewCall ==
    /\ overview_pc = "args"
    /\ overview_result' = compute_overview(overview_args.dre_df, overview_args.bpa_df,
                                           overview_args.bpp_df, overview_args.dfc_df,
                                           overview_args.dre_annual_df)
    /\ overview_pc' = "done"
    /\ UNCHANGED <<overview_args, notOverview>>

OverviewNext == ComputeOverviewCall

SpecOverview == OverviewInit /\ [][OverviewNext]_vars

\* the income table the indicators are computed from
IncomeUsed == UseDre(overview_args.dre_df, overview_args.dre_annual_df)

\* C1: compute_overview returns a bundle for every five statements, also
\* when the income table has rows, and in that bundle the indicators of a
\* statement that is absent or empty are None.
C1_OverviewNeverRaises ==
    overview_pc = "done" =>
        /\ ~overview_result.raised
        /\ (Usable(IncomeUsed) /\ ~Usable(overview_args.bpa_df)) =>
              /\ overview_result.result.returns.roa = None
              /\ overview_result.result.financial_health.ativo_total = None

\* the figures the indicators of the call are computed from
OverviewLocals ==
    LocalsAtHealth(IncomeUsed, overview_args.bpa_df, overview_args.bpp_df)
OverviewEbitda == Ebitda(OverviewLocals, overview_args.dfc_df)
\* a denominator that is absent, zero or negative
NonPositive(v) == IsNone(v) \/ IsNaN(v) \/ LeZero(v)

\* C12: a call on an income table with rows returns a bundle, and each
\* leverage ratio in it is None when its denominator is absent, zero or
\* negative: EBITDA, EBIT, equity (twice), total assets, financial
\* expenses (twice)
C12_LeverageGuarded ==
    (overview_pc = "done" /\ Usable(IncomeUsed)) =>
        /\ ~overview_result.raised
        /\ LET lev == overview_result.result.leverage
               l   == OverviewLocals
           IN  /\ NonPositive(OverviewEbitda) => lev.divida_liq_ebitda = None
               /\ NonPositive(l.ebit) => lev.divida_liq_ebit = None
               /\ NonPositive(l.patrimonio_liq) =>
                     lev.divida_liq_pl = None /\ lev.divida_bruta_pl = None
               /\ NonPositive(l.ativo_total) => lev.divida_bruta_ativo = None
               /\ NonPositive(l.desp_financeiras) =>
                     lev.ebit_desp_fin = None /\ lev.ebitda_desp_fin = None

\* C13: a call on an income table with rows returns a bundle; with EBIT and
\* equity present (EBIT = 0 included; net debt is always a number) its ROIC
\* is round(100 * EBIT * (1 - 0.34) / (equity + max(net debt, 0)), 2), and
\* with one of them absent it is None
C13_RoicFormula ==
    (overview_pc = "done" /\ Usable(IncomeUsed)) =>
        /\ ~overview_result.raised
        /\ LET l == OverviewLocals
               capital == FAdd(l.patrimonio_liq, MaxZero(l.divida_liquida))
           IN  IF IsNone(l.ebit) \/ IsNone(l.patrimonio_liq)
               THEN overview_result.result.returns.roic = None
               ELSE ~EqZero(capital) =>
                       overview_result.result.returns.roic =
                           Round(FDiv(FMul(Fin(100), FMul(l.ebit, Rat(66, 100))), capital), 2)

\* the points of a series stand in strictly ascending order of date
Ascending(series) ==
    \A i, j \in 1..Len(series) : i < j => StrLess(series[i].dt, series[j].dt)

\* C14: a call on an income table with rows returns a bundle, and every
\* series of its history is in strictly ascending order of date, whatever
\* the order of the rows of the annual income table
C14_HistoryAscending ==
    (overview_pc = "done" /\ Usable(IncomeUsed)) =>
        /\ ~overview_result.raised
        /\ \A name \in DOMAIN overview_result.result.history :
              Ascending(overview_result.result.history[name])

\* the reference dates of a table, and the latest of them
RowDates(df) == {df.rows[i].DT_REFER : i \in 1..Len(df.rows)}
MaxDate(df) == CHOOSE d \in RowDates(df) : \A e \in RowDates(df) : ~DateLess(d, e)
\* the row the call reads as the latest of df is the one of the latest date
LatestIsMaxDate(df) == Usable(df) => LastRow(df).DT_REFER = MaxDate(df)

\* C19: a call on an income table with rows returns a bundle whose
\* latest_period is the maximum reference date of the income table used,
\* and the row it reads as the latest of each statement (df.iloc[-1]) is
\* the row of the maximum reference date of that table, in every row order
C19_LatestIsMaxDate ==
    (overview_pc = "done" /\ Usable(IncomeUsed)) =>
        /\ ~overview_result.raised
        /\ overview_result.result.latest_period = MaxDate(IncomeUsed)
        /\ LatestIsMaxDate(IncomeUsed)
        /\ LatestIsMaxDate(overview_args.bpa_df)
        /\ LatestIsMaxDate(overview_args.bpp_df)
        /\ LatestIsMaxDate(overview_args.dfc_df)

\* the years of the rows of a table, and the row of year y the index is to
\* hold: of the largest month of the year, the last such row in the table
YearsOf(df) == {df.rows[i].DT_REFER.y : i \in {j \in 1..Len(df.rows) : ~df.rows[j].DT_REFER.nat}}
RowOfYear(df, y) ==
    LET inYear == {i \in 1..Len(df.rows) :
                      ~df.rows[i].DT_REFER.nat /\ df.rows[i].DT_REFER.y = y}
        i == CHOOSE k \in inYear :
                /\ \A j \in inYear : df.rows[j].DT_REFER.m <= df.rows[k].DT_REFER.m
                /\ \A j \in inYear : j > k => df.rows[j].DT_REFER.m < df.rows[k].DT_REFER.m
    IN  df.rows[i]
\* the index of df holds, for each year of df and no other, that row
IndexedByYear(df) ==
    IF ~Usable(df) THEN _annual_dict(df) = << >>
    ELSE /\ DOMAIN _annual_dict(df) = YearsOf(df)
         /\ \A y \in YearsOf(df) :
               /\ _annual_dict(df)[y].DT_REFER = RowOfYear(df, y).DT_REFER
               /\ _annual_dict(df)[y].cells = RowOfYear(df, y).cells

\* C21: a call on an income table with rows returns a bundle; the index
\* built of each table holds for every year the row of the year's largest
\* month (the last of them in the table), and each point of the series roa
\* combines an income row with the balance-sheet row of its own year
C21_AnnualIndexAligned ==
    (overview_pc = "done" /\ Usable(IncomeUsed)) =>
        /\ ~overview_result.raised
        /\ IndexedByYear(overview_args.bpa_df)
        /\ IndexedByYear(overview_args.bpp_df)
        /\ IndexedByYear(overview_args.dfc_df)
        /\ \A k \in 1..Len(overview_result.result.history.roa) :
              \E i \in 1..Len(IncomeUsed.rows) :
                 LET row == IncomeUsed.rows[i]
                     p   == overview_result.result.history.roa[k]
                     y   == row.DT_REFER.y
                 IN  /\ p.dt = DateText(row.DT_REFER)
                     /\ Usable(overview_args.bpa_df) /\ y \in YearsOf(overview_args.bpa_df)
                     /\ p.value =
                          _safe_round(
                            FMul(FDiv(_get(row.cells,
                                           "Lucro/Prejuizo Consolidado do Periodo", None),
                                      _get(RowOfYear(overview_args.bpa_df, y).cells,
                                           "Ativo Total", None)),
                                 Fin(100)), 2)

\* FCO + CAPEX of a cash-flow row, None when its FCO is absent; a line of
\* CAPEX that is missing counts 0
FreeCashFlow(dfc_row) ==
    LET fco == _get(dfc_row, "Caixa Liquido Atividades Operacionais", None)
        line(label) == IF IsNone(_get(dfc_row, label, None)) THEN Fin(0)
                       ELSE _get(dfc_row, label, None)
    IN  IF IsNone(fco) THEN None
        ELSE FAdd(fco, FAdd(line("Aquisicao de Imobilizado"),
                            line("Aquisicao de Intangivel")))

\* C22: a call on an income table with rows returns a bundle whose free
\* cash flow is FCO + CAPEX of the latest cash-flow row whenever that row
\* has an FCO, FCO = 0 included, and None only when it has none
C22_FreeCashFlow ==
    (overview_pc = "done" /\ Usable(IncomeUsed)) =>
        /\ ~overview_result.raised
        /\ overview_result.result.cash_flow.fcf =
              _safe_round(FreeCashFlow(LatestDict(overview_args.dfc_df)), 0)

(***************************************************************************)
(* SpecLoad: the load threads of api.py and service.py running beside one  *)
(* request, a GET /overview or a GET /status.  A step is one statement, or *)
(* one call, of a thread; the threads interleave freely.                   *)
(***************************************************************************)
NoRequest == [IdleRequest EXCEPT !.pc = "off"]

LoadInit ==
    /\ _loading = FALSE /\ _load_error = "" /\ loaded = FALSE /\ last_update = 0
    /\ data_id = 0 /\ retired = << >>
    \* lifespan has started the thread of the first load
    /\ loader = [t \in Loads |-> [pc |-> IF t = 1 THEN "start" ELSE "idle", i |-> 0]]
    /\ \/ overview_req = IdleRequest /\ status_req = NoRequest
       \/ overview_req = NoRequest /\ status_req = IdleRequest
    /\ RatioIdle /\ GrowthIdle /\ ParserIdle /\ StatementIdle /\ OverviewIdle
    /\ ExtraIdle

\* api.py 230-232: POST /reload while _loading is set
ReloadAlreadyLoading ==
    /\ _loading
    /\ UNCHANGED vars

\* a plausible repair: the handler sets the flag itself, with its check
ReloadStart_sets_flag(t) ==
    /\ ~ _loading
    /\ loader[t].pc = "idle"
    /\ \A u \in Loads : u < t => loader[u].pc # "idle"
    /\ _loading' = TRUE
    /\ loader' = [loader EXCEPT ![t].pc = "start"]
    /\ UNCHANGED <<_load_error, loaded, last_update, data_id, retired,
                   overview_req, status_req, data, _cnpj_to_cvm, notLoad>>

\* api.py 230-247: POST /reload starts the thread of one more load
ReloadStart(t) ==
    /\ ~ _loading
    /\ loader[t].pc = "idle"
    /\ \A u \in Loads : u < t => loader[u].pc # "idle"
    /\ loader' = [loader EXCEPT ![t].pc = "start"]
    /\ UNCHANGED <<_loading, _load_error, loaded, last_update, data_id, retired,
                   overview_req, status_req, data, _cnpj_to_cvm, notLoad>>

\* api.py 78-79 and 236-237: the thread sets the flag and clears the error
LoadBegin(t) ==
    /\ loader[t].pc = "start"
    /\ _loading' = TRUE
    /\ _load_error' = ""
    /\ loader' = [loader EXCEPT ![t].pc = "download"]
    /\ UNCHANGED <<loaded, last_update, data_id, retired, overview_req, status_req,
                   data, _cnpj_to_cvm, notLoad>>

\* service.py 58-78: the downloads, then self.data = process_all_statements(..)
LoadSwap(t) ==
    /\ loader[t].pc = "download"
    \* the dict replaced lives on while GET /status iterates it
    /\ retired' = IF status_req.pc = "read" /\ status_req.ref = data_id
                  THEN (data_id :> data) ELSE retired
    /\ data' = ProcessedTables(t)
    /\ data_id' = t
    /\ loader' = [loader EXCEPT ![t].pc = "mapper"]
    /\ UNCHANGED <<_loading, _load_error, loaded, last_update, overview_req,
                   status_req, _cnpj_to_cvm, notLoad>>

\* a download (service.py 58-62) or the mapper's download (line 82) raises
LoadRaise(t) ==
    /\ loader[t].pc \in {"download", "mapper"}
    /\ loader' = [loader EXCEPT ![t].pc = "except"]
    /\ UNCHANGED <<_loading, _load_error, loaded, last_update, data_id, retired,
                   overview_req, status_req, data, _cnpj_to_cvm, notLoad>>

\* service.py 82: ticker_mapper.load builds its index
MapperLoad(t) ==
    /\ loader[t].pc = "mapper"
    /\ _cnpj_to_cvm' = CadIndex
    /\ loader' = [loader EXCEPT ![t] = [pc |-> "enrich", i |-> 1]]
    /\ UNCHANGED <<_loading, _load_error, loaded, last_update, data_id, retired,
                   overview_req, status_req, data, notLoad>>

\* service.py 85-88: one turn of the loop, on the dict self.data refers to
Enrich(t) ==
    /\ loader[t].pc = "enrich"
    /\ loader[t].i <= Len(Keys)
    /\ data' = [data EXCEPT ![Keys[loader[t].i]] = enrich_dataframe(@)]
    /\ loader' = [loader EXCEPT ![t].i = @ + 1]
    /\ UNCHANGED <<_loading, _load_error, loaded, last_update, data_id, retired,
                   overview_req, status_req, _cnpj_to_cvm, notLoad>>

\* service.py 90-91
LoadDone(t) ==
    /\ loader[t].pc = "enrich"
    /\ loader[t].i > Len(Keys)
    /\ last_update' = t
    /\ loaded' = TRUE
    /\ loader' = [loader EXCEPT ![t].pc = "finally"]
    /\ UNCHANGED <<_loading, _load_error, data_id, retired, overview_req, status_req,
                   data, _cnpj_to_cvm, notLoad>>

\* api.py 83-85 and 240-241
LoadExcept(t) ==
    /\ loader[t].pc = "except"
    /\ _load_error' = "error"
    /\ loader' = [loader EXCEPT ![t].pc = "finally"]
    /\ UNCHANGED <<_loading, loaded, last_update, data_id, retired, overview_req,
                   status_req, data, _cnpj_to_cvm, notLoad>>

\* api.py 86-87 and 242-243
LoadFinally(t) ==
    /\ loader[t].pc = "finally"
    /\ _loading' = FALSE
    /\ loader' = [loader EXCEPT ![t].pc = "ended"]
    /\ UNCHANGED <<_load_error, loaded, last_update, data_id, retired, overview_req,
                   status_req, data, _cnpj_to_cvm, notLoad>>

\* api.py 182-186: check_loaded reads _loading
OverviewCheckLoading ==
    /\ overview_req.pc = "idle"
    /\ overview_req' = IF _loading
                       THEN [overview_req EXCEPT !.pc = "done", !.status = 503]
                       ELSE [overview_req EXCEPT !.pc = "check"]
    /\ UNCHANGED <<_loading, _load_error, loaded, last_update, data_id, retired,
                   loader, status_req, data, _cnpj_to_cvm, notLoad>>

\* api.py 187-191: check_loaded reads data_service.loaded
OverviewCheckLoaded ==
    /\ overview_req.pc = "check"
    /\ overview_req' = IF ~loaded
                       THEN [overview_req EXCEPT !.pc = "done", !.status = 503]
                       ELSE [overview_req EXCEPT !.pc = "read"]
    /\ UNCHANGED <<_loading, _load_error, loaded, last_update, data_id, retired,
                   loader, status_req, data, _cnpj_to_cvm, notLoad>>

\* api.py 323-327: the five get_statement calls of GET /overview?cnpj=..
OverviewCalls ==
    LET Call(statement, periodo) ==
            [statement |-> statement, pivoted |-> TRUE, ticker |-> Absent,
             cnpj |-> Text(Petrobras), cd_cvm |-> Absent, dt_refer |-> Absent,
             periodo |-> periodo]
    IN  << Call("DRE", Text(<< "a", "n", "u", "a", "l" >>)),
           Call("DRE", Text(<< "t", "r", "i", "m", "e", "s", "t", "r", "a", "l" >>)),
           Call("BPA", Absent), Call("BPP", Absent),
           Call("DFC", Text(<< "a", "n", "u", "a", "l" >>)) >>

OverviewRead ==
    /\ overview_req.pc = "read"
    /\ Len(overview_req.seen) < Len(OverviewCalls)
    /\ overview_req' =
          [overview_req EXCEPT !.seen =
              Append(@, get_statement(data, _cnpj_to_cvm,
                                      OverviewCalls[Len(@) + 1]).df)]
    /\ UNCHANGED <<_loading, _load_error, loaded, last_update, data_id, retired,
                   loader, status_req, data, _cnpj_to_cvm, notLoad>>

\* api.py 329-335: compute_overview on the five tables read
OverviewCompute ==
    /\ overview_req.pc = "read"
    /\ Len(overview_req.seen) = Len(OverviewCalls)
    /\ LET tables == overview_req.seen
           r == compute_overview(tables[2], tables[3], tables[4], tables[5], tables[1])
       IN  overview_req' = [overview_req EXCEPT
                               !.pc = "done", !.seen = << >>,
                               !.status = IF r.raised THEN 500 ELSE 200]
    /\ UNCHANGED <<_loading, _load_error, loaded, last_update, data_id, retired,
                   loader, status_req, data, _cnpj_to_cvm, notLoad>>

\* service.py 241: get_status takes self.data.items() of the dict of the moment
StatusBegin ==
    /\ status_req.pc = "idle"
    /\ status_req' = [status_req EXCEPT !.pc = "read", !.ref = data_id]
    /\ UNCHANGED <<_loading, _load_error, loaded, last_update, data_id, retired,
                   loader, overview_req, data, _cnpj_to_cvm, notLoad>>

\* the dict a request iterates: the current one, or one replaced since
DictOf(ref) == IF ref = data_id THEN data ELSE retired[ref]

\* service.py 241-243: one turn of the loop over the tables
StatusRead ==
    /\ status_req.pc = "read"
    /\ DictOf(status_req.ref) # << >>
    /\ Len(status_req.seen) < Len(Keys)
    /\ status_req' = [status_req EXCEPT !.seen =
                         Append(@, DictOf(status_req.ref)[Keys[Len(@) + 1]])]
    /\ UNCHANGED <<_loading, _load_error, loaded, last_update, data_id, retired,
                   loader, overview_req, data, _cnpj_to_cvm, notLoad>>

\* service.py 245-251 and api.py 216-222: the answer of GET /status
StatusEnd ==
    /\ status_req.pc = "read"
    /\ DictOf(status_req.ref) = << >> \/ Len(status_req.seen) = Len(Keys)
    /\ status_req' = [status_req EXCEPT
                         !.pc = "done", !.status = 200, !.seen = << >>,
                         !.body = [loaded |-> loaded, last_update |-> last_update,
                                   tables |-> [i \in 1..Len(status_req.seen) |->
                                                 Len(status_req.seen[i].rows)],
                                   loading |-> _loading, load_error |-> _load_error]]
    /\ retired' = << >>
    /\ UNCHANGED <<_loading, _load_error, loaded, last_update, data_id,
                   loader, overview_req, data, _cnpj_to_cvm, notLoad>>

LoadNext ==
    \/ ReloadAlreadyLoading
    \/ \E t \in Loads :
          \/ ReloadStart(t) \/ LoadBegin(t) \/ LoadSwap(t) \/ LoadRaise(t)
          \/ MapperLoad(t) \/ Enrich(t) \/ LoadDone(t) \/ LoadExcept(t)
          \/ LoadFinally(t)
    \/ OverviewCheckLoading \/ OverviewCheckLoaded \/ OverviewRead \/ OverviewCompute
    \/ StatusBegin \/ StatusRead \/ StatusEnd

SpecLoad == LoadInit /\ [][LoadNext]_vars

\* the tables a request has read so far all come from one load, each with
\* its TICKERS column
OneGeneration(seen) ==
    /\ \A i, j \in 1..Len(seen) : seen[i].gen = seen[j].gen
    /\ \A i \in 1..Len(seen) : "TICKERS" \in seen[i].columns

\* C5: whatever a load is doing, the tables a GET /overview or a GET /status
\* reads are those of one complete generation: all of the same load and all
\* enriched.
C5_ReadersSeeOneGeneration ==
    /\ OneGeneration(overview_req.seen)
    /\ OneGeneration(status_req.seen)

\* thread t is executing data_service.load
InLoad(t) == loader[t].pc \in {"download", "mapper", "enrich"}

\* C18: the flag is set by the load thread, not by the trigger that checks
\* it: while every thread started is still before its first statement (or
\* has ended), _loading is FALSE, so a second trigger passes the check too;
\* (the witness:) two threads then execute data_service.load at once
C18_FlagClearUntilThreadRuns ==
    (\A t \in Loads : loader[t].pc \in {"idle", "start", "ended"}) => ~_loading

\* the load of the startup and the load of a POST /reload, both inside
\* data_service.load
C18_Witness ==
    \E t, u \in Loads : t # u /\ InLoad(t) /\ InLoad(u)

\* the balance-sheet and cash-flow rows a GET /overview hands to
\* compute_overview as the latest are of the date of the latest income row
SameReferenceDate(tables) ==
    LET income == UseDre(tables[2], tables[1])
    IN  Usable(income) =>
           \A k \in 3..5 : Usable(tables[k]) =>
               LastRow(tables[k]).DT_REFER = LastRow(income).DT_REFER

\* C20: when GET /overview computes its bundle from the five statements it
\* read, the call returns a bundle, and the balance-sheet rows and the
\* cash-flow row it uses carry the reference date of the income row
\* latest_period is taken from
C20_SingleReferenceDate ==
    [][(overview_req.pc = "read" /\ overview_req'.pc = "done") =>
          /\ overview_req'.status = 200
          /\ SameReferenceDate(overview_req.seen)]_vars

\* C26: when a load that raised records its failure, the tables served are
\* not those it put in place and last_update is not its own: the served
\* state is as it was before the load started, and _load_error holds the
\* failure
C26_FailedLoadLeavesState ==
    [][\A t \in Loads :
          (loader[t].pc = "except" /\ loader'[t].pc = "finally") =>
              /\ data_id # t
              /\ last_update # t
              /\ _load_error' = "error"]_vars

\* C27: while any thread is executing data_service.load the flag _loading
\* is True (so check_loaded answers 503), also when two loads overlap and
\* one of them has finished
C27_LoadingWhileInLoad ==
    (\E t \in Loads : InLoad(t)) => _loading

\* data_service.load returned in thread t: its last loop ran to the end
LoadReturned(t) == loader[t].i > Len(Keys)

\* C28: when a load thread finishes, _loading is False; _load_error holds
\* the message if its load raised, and is None with loaded True if its load
\* returned; and loaded, once True, stays True
C28_FinishedLoadOutcome ==
    [][/\ \A t \in Loads :
             (loader[t].pc = "finally" /\ loader'[t].pc = "ended") =>
                 /\ _loading' = FALSE
                 /\ IF LoadReturned(t) THEN _load_error' = "" /\ loaded'
                    ELSE _load_error' = "error"
       /\ loaded => loaded']_vars

(***************************************************************************)
(* SpecScreener: GET /screener called up to MaxScreenerCalls times on one  *)
(* loaded service, time passing between the calls                          *)
(***************************************************************************)
ScreenerInit ==
    /\ RatioIdle /\ GrowthIdle /\ ParserIdle /\ OverviewIdle
    /\ data \in ScreenerTables
    /\ _cnpj_to_cvm \in ScreenerIndexes
    /\ query = << >> /\ stmt_result = Returned(EmptyFrame) /\ stmt_pc = "off"
    /\ _loading = FALSE /\ _load_error = "" /\ loaded = TRUE /\ last_update = 1
    /\ data_id = 0 /\ retired = << >>
    /\ loader = [t \in Loads |-> [pc |-> "idle", i |-> 0]]
    /\ overview_req = IdleRequest /\ status_req = IdleRequest
    /\ TransportIdle /\ MergeIdle
    /\ scr_faults \in ScreenerFaults
    /\ market \in Markets
    /\ scr_pc = "idle" /\ scr_calls = 0 /\ now = 1
    /\ companies = << >> /\ scr_i = 0 /\ scr_frames = << >>
    /\ results = << >> /\ errors = << >>
    /\ market_batch = << >> /\ response = NoResponse
    /\ _screener_cache = NoCache

\* a plausible slip: "<=" for "<", a response of exactly 24 h still served
ScreenerCall_ttl_inclusive(force) ==
    /\ scr_pc = "idle" /\ scr_calls < MaxScreenerCalls
    /\ ~_loading /\ loaded
    /\ scr_calls' = scr_calls + 1
    /\ IF ~force /\ _screener_cache.set /\ _screener_cache.ts # 0
          /\ now - _screener_cache.ts <= CACHE_TTL
       THEN /\ response' = _screener_cache.data
            /\ scr_pc' = "cached"
            /\ UNCHANGED <<companies, scr_i, results, errors>>
       ELSE /\ companies' = get_all_mapped_companies(_cnpj_to_cvm)
            /\ results' = << >> /\ errors' = << >> /\ scr_i' = 1
            /\ scr_pc' = "loop"
            /\ UNCHANGED response
    /\ UNCHANGED <<scr_faults, market, scr_frames, market_batch, _screener_cache, now>>
    /\ UNCHANGED notScreener

\* lines 547-557: check_loaded passes; a cached response younger than 24 h
\* is returned unless force is set, else the loop starts
ScreenerCall(force) ==
    /\ scr_pc = "idle" /\ scr_calls < MaxScreenerCalls
    /\ ~_loading /\ loaded
    /\ scr_calls' = scr_calls + 1
    /\ IF ~force /\ _screener_cache.set /\ _screener_cache.ts # 0
          /\ now - _screener_cache.ts < CACHE_TTL
       THEN /\ response' = _screener_cache.data
            /\ scr_pc' = "cached"
            /\ UNCHANGED <<companies, scr_i, results, errors>>
       ELSE /\ companies' = get_all_mapped_companies(_cnpj_to_cvm)
            /\ results' = << >> /\ errors' = << >> /\ scr_i' = 1
            /\ scr_pc' = "loop"
            /\ UNCHANGED response
    /\ UNCHANGED <<scr_faults, market, scr_frames, market_batch, _screener_cache, now>>
    /\ UNCHANGED notScreener

\* lines 562-571: the loop fetches the statements of the next company
ScreenerStatements ==
    /\ scr_pc = "loop" /\ scr_i <= Len(companies) /\ scr_frames = << >>
    /\ scr_frames' = ScreenerStatementsOf(data, _cnpj_to_cvm, companies[scr_i])
    /\ UNCHANGED <<scr_pc, scr_calls, scr_faults, market, companies, scr_i, results,
                   errors, market_batch, response, _screener_cache, now>>
    /\ UNCHANGED notScreener

\* lines 573-601: the indicators of the company, its row or its error entry
ScreenerCompany ==
    /\ scr_pc = "loop" /\ scr_i <= Len(companies) /\ scr_frames # << >>
    /\ LET comp == companies[scr_i]
           it   == ScreenerIteration(scr_frames, comp, comp.ticker \in scr_faults)
       IN  /\ results' = IF it.kind = "row" THEN Append(results, it.row) ELSE results
           /\ errors' = IF it.kind = "error" THEN Append(errors, comp.ticker) ELSE errors
    /\ scr_i' = scr_i + 1
    /\ scr_frames' = << >>
    /\ UNCHANGED <<scr_pc, scr_calls, scr_faults, market, companies, market_batch,
                   response, _screener_cache, now>>
    /\ UNCHANGED notScreener

\* lines 603-610: the batch fetch for the tickers with a row; a failure
\* leaves an empty batch
ScreenerFetch ==
    /\ scr_pc = "loop" /\ scr_i > Len(companies)
    /\ market_batch' =
          IF market.failed THEN << >>
          ELSE [t \in {results[i].ticker : i \in 1..Len(results)} \cap DOMAIN market.batch
                    |-> market.batch[t]]
    /\ scr_pc' = "valuation"
    /\ UNCHANGED <<scr_calls, scr_faults, market, companies, scr_i, scr_frames, results,
                   errors, response, _screener_cache, now>>
    /\ UNCHANGED notScreener

\* lines 612-683: the valuation fields of every row, the response and the
\* cache entry
ScreenerRespond ==
    /\ scr_pc = "valuation"
    /\ results' = [i \in 1..Len(results) |-> Valuation(results[i], market_batch)]
    /\ response' = [data |-> results', total |-> Len(results), errors |-> Len(errors)]
    /\ _screener_cache' = [set |-> TRUE, data |-> response', ts |-> now]
    /\ scr_pc' = "done"
    /\ UNCHANGED <<scr_calls, scr_faults, market, companies, scr_i, scr_frames, errors,
                   market_batch, now>>
    /\ UNCHANGED notScreener

\* the call is over; time passes before the next one
ScreenerNextCall(seconds) ==
    /\ scr_pc \in {"done", "cached"} /\ scr_calls < MaxScreenerCalls
    /\ now' = now + seconds
    /\ scr_pc' = "idle"
    /\ companies' = << >> /\ scr_i' = 0 /\ results' = << >> /\ errors' = << >>
    /\ market_batch' = << >> /\ response' = NoResponse
    /\ UNCHANGED <<scr_calls, scr_faults, market, scr_frames, _screener_cache>>
    /\ UNCHANGED notScreener

\* the tables of a later load: the figures of the year restated
ReloadedTables ==
    ("DRE" :> ScreenerIncome(Fin(-50), TRUE)) @@ ("BPA" :> EmptyFrame)
        @@ ("BPP" :> ScreenerLiabilities(Fin(-50))) @@ ("DFC" :> ScreenerCash)

\* api.py 225-247 and service.py 76-91: a POST /reload between two requests
\* runs to its end; load replaces the tables and sets last_update, and
\* touches nothing else of the screener
ScreenerReload ==
    /\ scr_pc = "idle" /\ ~_loading /\ last_update < now
    /\ data' = ReloadedTables
    /\ last_update' = now
    /\ UNCHANGED <<ratioVars, growthVars, parserVars, _cnpj_to_cvm, query, stmt_result,
                   stmt_pc, overviewVars, _loading, _load_error, loaded, data_id, retired,
                   loader, overview_req, status_req, transportVars, screenerVars,
                   mergeVars>>

ScreenerNext ==
    \/ ScreenerReload
    \/ \E force \in BOOLEAN : ScreenerCall(force)
    \/ ScreenerStatements
    \/ ScreenerCompany
    \/ ScreenerFetch
    \/ ScreenerRespond
    \/ \E seconds \in TimeSteps : ScreenerNextCall(seconds)

SpecScreener == ScreenerInit /\ [][ScreenerNext]_vars
\* whether the computation of company comp raises, and whether it yields
\* indicators, told from the stored tables
ComputationRaises(comp) ==
    LET st == ScreenerStatementsOf(data, _cnpj_to_cvm, comp)
    IN  \/ st.dre.raised \/ st.bpa.raised \/ st.bpp.raised \/ st.dfc.raised
        \/ comp.ticker \in scr_faults
ComputationYields(comp) ==
    /\ ~ComputationRaises(comp)
    /\ LET st == ScreenerStatementsOf(data, _cnpj_to_cvm, comp)
       IN  compute_indicadores(st.dre.df, st.bpa.df, st.bpp.df, st.dfc.df) # << >>
RowTickers == {response.data[i].ticker : i \in 1..Len(response.data)}
Computed == scr_pc = "done"

\* C11: a company whose computation raises does not stop the loop: the
\* response computed holds exactly one row for every company whose
\* computation produced indicators, none for a company whose computation
\* raised, and "errors" counts the companies whose computation raised
C11_ScreenerIsolation ==
    Computed =>
        /\ RowTickers = {companies[i].ticker :
                            i \in {j \in 1..Len(companies) : ComputationYields(companies[j])}}
        /\ Len(response.data) = Cardinality(RowTickers)
        /\ response.total = Len(response.data)
        /\ \A i \in 1..Len(companies) :
              ComputationRaises(companies[i]) => companies[i].ticker \notin RowTickers
        /\ response.errors =
              Cardinality({i \in 1..Len(companies) : ComputationRaises(companies[i])})

\* the first company of the loop failed and the second has its row
C11_Witness ==
    /\ Computed
    /\ Len(companies) = 2
    /\ ComputationRaises(companies[1])
    /\ response.errors = 1
    /\ RowTickers = {companies[2].ticker}

\* the multiples of a row with the figure each divides by, and those that
\* divide market cap and those that divide EV
MultipleDenominator ==
    ("P/E" :> "Lucro Liquido") @@ ("P/B" :> "Patrimonio Liquido")
    @@ ("EV/EBITDA" :> "EBITDA") @@ ("EV/EBIT" :> "EBIT")
    @@ ("EV/Sales" :> "Receita Liquida") @@ ("P/Sales" :> "Receita Liquida")
    @@ ("P/FCF" :> "FCF")
PriceMultiples == {"P/E", "P/B", "P/Sales", "P/FCF"}
ValueMultiples == {"EV/EBITDA", "EV/EBIT", "EV/Sales"}

\* C17: in the response computed, every valuation multiple of every row is
\* None when its denominator is absent, zero or negative, and when market
\* cap (for P/...) or EV (for EV/...) is absent; and whatever the market
\* data were (no entry for the ticker, an entry without fields, a failed
\* fetch), every company that yielded indicators keeps its row, with all
\* seven multiples in it
C17_MultiplesGuarded ==
    Computed =>
        /\ \A i \in 1..Len(response.data) :
              LET m == response.data[i].metrics
              IN  /\ DOMAIN MultipleDenominator \subseteq DOMAIN m
                  /\ \A x \in DOMAIN MultipleDenominator :
                        NonPositive(m[MultipleDenominator[x]]) => m[x] = None
                  /\ \A x \in PriceMultiples : m["Market Cap"] = None => m[x] = None
                  /\ \A x \in ValueMultiples : m["EV"] = None => m[x] = None
        /\ \A j \in 1..Len(companies) :
              ComputationYields(companies[j]) => companies[j].ticker \in RowTickers

\* a row with a market cap and a loss: no P/E; and a row left without
\* market data beside it
C17_Witness ==
    /\ Computed
    /\ \E i \in 1..Len(response.data) :
          LET m == response.data[i].metrics
          IN  /\ m["Market Cap"] # None
              /\ GtZero(FNeg(m["Lucro Liquido"]))
              /\ m["P/E"] = None
    /\ \E i \in 1..Len(response.data) :
          response.data[i].ticker \notin DOMAIN market_batch

\* a cached response exists and is younger than 24 hours
CacheFresh == _screener_cache.set /\ now - _screener_cache.ts < CACHE_TTL

C29_CacheOfLoadedGeneration ==
    scr_pc = "cached" => _screener_cache.ts >= last_update

(***************************************************************************)
(* SpecTransport: one table of the loaded service serialised by one of the *)
(* functions that hand data to the transport layer                         *)
(***************************************************************************)
TransportInit ==
    /\ RatioIdle /\ GrowthIdle /\ ParserIdle /\ OverviewIdle /\ LoadIdle /\ ScreenerIdle
    /\ MergeIdle
    /\ tr_df \in TransportFrames
    /\ data = IF tr_df = NoFrame THEN << >> ELSE ("DRE" :> tr_df)
    /\ _cnpj_to_cvm = CadIndex
    /\ query = << >> /\ stmt_result = Returned(EmptyFrame) /\ stmt_pc = "off"
    /\ tr_call = NoCall /\ tr_out = << >> /\ tr_pc = "args"

\* src/app/api.py: an endpoint returns df_to_response(df, limit, offset)
DfToResponseCall(limit, offset) ==
    /\ tr_pc = "args"
    /\ tr_call' = [NoCall EXCEPT !.fn = "df_to_response", !.limit = limit, !.offset = offset]
    /\ tr_out' = df_to_response(tr_df, limit, offset).data
    /\ tr_pc' = "done"
    /\ UNCHANGED <<tr_df, notTransport>>

\* src/cvm-financials-api/app/api.py: the same endpoint of that version
DfToResponseV1Call(limit, offset) ==
    /\ tr_pc = "args"
    /\ tr_call' = [NoCall EXCEPT !.fn = "df_to_response_v1", !.limit = limit,
                                 !.offset = offset]
    /\ tr_out' = df_to_response_v1(tr_df, limit, offset).data
    /\ tr_pc' = "done"
    /\ UNCHANGED <<tr_df, notTransport>>

\* GET /empresa/{cd_cvm} and GET /ticker/{ticker}: the records of the
\* income statement of get_company_financials
CompanyFinancialsCall(who) ==
    /\ tr_pc = "args"
    /\ tr_call' = [NoCall EXCEPT !.fn = "get_company_financials", !.who = who]
    /\ LET r == get_company_financials(data, _cnpj_to_cvm, who)
       IN  /\ tr_out' = IF r.raised THEN << >> ELSE r.result["DRE"]
           /\ data' = IF r.raised THEN data
                      ELSE StoredAfterFinancials(data, _cnpj_to_cvm, who)
    /\ tr_pc' = "done"
    /\ UNCHANGED <<tr_df, ratioVars, growthVars, parserVars, _cnpj_to_cvm, query,
                   stmt_result, stmt_pc, overviewVars, loadVars, screenerVars,
                   mergeVars>>

TransportNext ==
    \/ \E limit \in Limits, offset \in Offsets : DfToResponseCall(limit, offset)
    \/ \E limit \in Limits, offset \in Offsets : DfToResponseV1Call(limit, offset)
    \/ \E who \in Identities : CompanyFinancialsCall(who)

SpecTransport == TransportInit /\ [][TransportNext]_vars

\* v is a finite number or None
FiniteOrNone(v) == IsNone(v) \/ IsFin(v)

\* C16: every figure of a record handed to the transport layer is finite or
\* None, whichever function serialised the table
C16_TransportFinite ==
    tr_pc = "done" =>
        \A i \in 1..Len(tr_out) : \A k \in DOMAIN tr_out[i].cells :
            FiniteOrNone(tr_out[i].cells[k])

\* the call was get_company_financials by ticker alone
ByTickerOnly ==
    /\ tr_pc = "done" /\ tr_call.fn = "get_company_financials"
    /\ Supplied(tr_call.who.ticker)
    /\ ~Supplied(tr_call.who.cnpj) /\ ~Supplied(tr_call.who.cd_cvm)

\* C25: the records a lookup by ticker alone returns are all of the company
\* the ticker maps to, and a ticker that maps to no tax id, and so to no
\* regulator code, returns no record (GET /ticker/{ticker} answers 404)
C25_TickerOwnRows ==
    ByTickerOnly =>
        LET cnpj == ticker_to_cnpj(tr_call.who.ticker.s)
        IN  IF Supplied(cnpj)
            THEN \A i \in 1..Len(tr_out) : StripPunctuation(tr_out[i].CNPJ_CIA) = cnpj.s
            ELSE tr_out = << >>


(***************************************************************************)
(* SpecMerge: process_all_statements on the raw cash-flow tables: the two   *)
(* methods combined into dfc_df, then stored in the result                  *)
(***************************************************************************)
MergeInit ==
    /\ merge_raw \in RawCashData
    /\ merge_dfc = NoTable
    /\ merge_result = NoTables
    /\ merge_pc = "raw"
    /\ RatioIdle /\ GrowthIdle /\ ParserIdle /\ StatementIdle /\ OverviewIdle /\ LoadIdle
    /\ ScreenerIdle /\ TransportIdle

\* lines 270-289
CombineStep ==
    /\ merge_pc = "raw"
    /\ merge_dfc' = CombinedDfc(merge_raw)
    /\ merge_pc' = "combined"
    /\ UNCHANGED <<merge_raw, merge_result, notMerge>>

\* lines 291-293
StoreStep ==
    /\ merge_pc = "combined"
    /\ merge_result' = DfcResult(merge_dfc)
    /\ merge_pc' = "stored"
    /\ UNCHANGED <<merge_raw, merge_dfc, notMerge>>

MergeNext == CombineStep \/ StoreStep

SpecMerge == MergeInit /\ [][MergeNext]_vars

\* the cleaned table of one method, without rows when its key is missing
CleanedOf(key) ==
    IF key \in DOMAIN merge_raw THEN clean_dataframe(merge_raw[key]).rows ELSE << >>
\* a row without its index label
Body(row) == [f \in DOMAIN row \ {"idx"} |-> row[f]]
Pair(row) == << row.CNPJ_CIA, row.DT_REFER >>
PairsOf(rows) == {Pair(rows[i]) : i \in 1..Len(rows)}
RowsOfPair(rows, pair) == {Body(rows[i]) : i \in {j \in 1..Len(rows) : Pair(rows[j]) = pair}}

\* C30: for every (CNPJ_CIA, DT_REFER) pair of either cleaned cash-flow
\* table, the rows of the pair in the combined table are exactly the
\* indirect-method rows of the pair when the indirect table has the pair,
\* and exactly the direct-method rows of the pair otherwise
C30_OneMethodPerPair ==
    merge_pc \in {"combined", "stored"} =>
        LET mi == CleanedOf("DFC_MI")
            md == CleanedOf("DFC_MD")
        IN  \A pair \in PairsOf(mi) \cup PairsOf(md) :
                RowsOfPair(merge_dfc.df.rows, pair) =
                    IF pair \in PairsOf(mi) THEN RowsOfPair(mi, pair)
                    ELSE RowsOfPair(md, pair)

=============================================================================
